---------------------------- MODULE Spec2Model ----------------------------
(***************************************************************************)
(* A model of the window-layout engine of rust_wm: the FocusManager, the   *)
(* VerticalLayout tiling strategy, the TileManager, the FloatManager, the  *)
(* FloatOrTileManager, the MinimiseManager and the MinimiseWM facade that  *)
(* composes them.  Every manager method is an operator from the manager's  *)
(* value (and its arguments) to the manager's new value and the Result it  *)
(* returns; every public operation of MinimiseWM is one action.            *)
(***************************************************************************)
EXTENDS Integers, Sequences, FiniteSets, TLC

(***************************************************************************)
(* Bounds of the model.                                                    *)
(***************************************************************************)
MaxWin == 2          \* window ids are 1..MaxWin when every operation is called
MaxTileWin == 3      \* window ids are 1..MaxTileWin when only tiles are added
MaxTiles == 4        \* longest tile sequence given to the layout alone
MaxSide == 5         \* largest screen width/height given to the layout alone
MaxFocusWin == 3     \* window ids are 1..MaxFocusWin when focus and order are followed
MaxMinWin == 1       \* of these, 1..MaxMinWin are the windows that get minimised
MaxFloatWin == 3     \* window ids are 1..MaxFloatWin when no window is minimised
MaxOrderWin == 3     \* window ids are 1..MaxOrderWin when the minimise order is followed
MaxOrderTile == 2    \* of these, 1..MaxOrderTile are the windows also added as tiles
MaxGap == 2          \* gaps given to the GapLayout are 0..MaxGap and TEST_GAP
MaxGapSide == 2      \* largest small screen width/height given to the GapLayout
MaxMultiWin == 1     \* window ids are 1..MaxMultiWin in the workspaces of MultiWorkspaces
MaxWorkspaces == 2   \* most workspaces switch_workspace appends

None == 0            \* Option::None of an Option<Window>
Windows == 1..MaxWin
TileWindows == 1..MaxTileWin

(***************************************************************************)
(* Sequence helpers: the VecDeque / Vec methods the code calls.            *)
(***************************************************************************)
\* iter().position(|w| *w == window): the first index (1-based), 0 for None
position(seq, window) ==
    IF \E i \in 1..Len(seq) : seq[i] = window
    THEN CHOOSE i \in 1..Len(seq) :
            /\ seq[i] = window
            /\ \A j \in 1..(i - 1) : seq[j] # window
    ELSE 0

\* iter().position(|w| w.window == window) on a Vec<WindowWithInfo>
info_position(seq, window) ==
    IF \E i \in 1..Len(seq) : seq[i].window = window
    THEN CHOOSE i \in 1..Len(seq) :
            /\ seq[i].window = window
            /\ \A j \in 1..(i - 1) : seq[j].window # window
    ELSE 0

\* VecDeque::remove(i) / Vec::remove(i), i a valid 1-based index
remove_at(seq, i) == SubSeq(seq, 1, i - 1) \o SubSeq(seq, i + 1, Len(seq))

\* VecDeque::swap(i, j)
swap(seq, i, j) ==
    [k \in 1..Len(seq) |-> IF k = i THEN seq[j] ELSE IF k = j THEN seq[i] ELSE seq[k]]

\* VecDeque::swap_remove_front(i): the element at i is replaced by the front
\* element, and the front slot is dropped
swap_remove_front(seq, i) == Tail(swap(seq, i, 1))

\* Manager::is_managed on the Vec that get_windows returns
is_managed(windows, window) == \E i \in 1..Len(windows) : windows[i] = window

contains(seq, window) == \E i \in 1..Len(seq) : seq[i] = window

SeqToSet(seq) == {seq[i] : i \in 1..Len(seq)}

(***************************************************************************)
(* cplwm_api types.                                                        *)
(***************************************************************************)
Geometry(x, y, width, height) == [x |-> x, y |-> y, width |-> width, height |-> height]

Screen(width, height) == [width |-> width, height |-> height]

WindowWithInfo(window, geometry, float_or_tile, fullscreen) ==
    [window |-> window, geometry |-> geometry,
     float_or_tile |-> float_or_tile, fullscreen |-> fullscreen]

Result(st, res) == [st |-> st, res |-> res]

(***************************************************************************)
(* FocusManager: the deque of unfocused windows and the focused window.    *)
(***************************************************************************)
FocusManager_new == [windows |-> << >>, focused_window |-> None]

FocusManager_get_windows(fm) ==
    IF fm.focused_window # None
    THEN Append(fm.windows, fm.focused_window)
    ELSE fm.windows

\* variant: push_front of the focused window, where the code has push_back
FocusManager_add_window_front(fm, window) ==
    IF ~is_managed(FocusManager_get_windows(fm), window)
    THEN Result([windows |-> IF fm.focused_window # None
                             THEN <<fm.focused_window>> \o fm.windows
                             ELSE fm.windows,
                 focused_window |-> window], "Ok")
    ELSE Result(fm, "AlReadyManagedWindow")

FocusManager_add_window(fm, window) ==
    IF ~is_managed(FocusManager_get_windows(fm), window)
    THEN Result([windows |-> IF fm.focused_window # None
                             THEN Append(fm.windows, fm.focused_window)
                             ELSE fm.windows,
                 focused_window |-> window], "Ok")
    ELSE Result(fm, "AlReadyManagedWindow")

\* variant: pop_front for the new focused window, where the code has pop_back
FocusManager_remove_window_front(fm, window) ==
    IF fm.focused_window # None /\ fm.focused_window = window
    THEN IF Len(fm.windows) > 0
         THEN Result([windows |-> Tail(fm.windows),
                      focused_window |-> Head(fm.windows)], "Ok")
         ELSE Result([windows |-> fm.windows, focused_window |-> None], "Ok")
    ELSE IF position(fm.windows, window) = 0
         THEN Result(fm, "UnknownWindow")
         ELSE Result([fm EXCEPT !.windows = remove_at(fm.windows,
                                                      position(fm.windows, window))], "Ok")

\* variant: the focused window is dropped whichever window was asked for, where
\* the code compares it with the argument first
FocusManager_remove_window_any(fm, window) ==
    IF fm.focused_window # None
    THEN IF Len(fm.windows) > 0
         THEN Result([windows |-> SubSeq(fm.windows, 1, Len(fm.windows) - 1),
                      focused_window |-> fm.windows[Len(fm.windows)]], "Ok")
         ELSE Result([windows |-> fm.windows, focused_window |-> None], "Ok")
    ELSE IF position(fm.windows, window) = 0
         THEN Result(fm, "UnknownWindow")
         ELSE Result([fm EXCEPT !.windows = remove_at(fm.windows,
                                                      position(fm.windows, window))], "Ok")

FocusManager_remove_window(fm, window) ==
    IF fm.focused_window # None /\ fm.focused_window = window
    THEN \* self.focused_window = self.windows.pop_back()
         IF Len(fm.windows) > 0
         THEN Result([windows |-> SubSeq(fm.windows, 1, Len(fm.windows) - 1),
                      focused_window |-> fm.windows[Len(fm.windows)]], "Ok")
         ELSE Result([windows |-> fm.windows, focused_window |-> None], "Ok")
    ELSE LET i == position(fm.windows, window)
         IN  IF i = 0
             THEN Result(fm, "UnknownWindow")
             ELSE Result([fm EXCEPT !.windows = remove_at(fm.windows, i)], "Ok")

\* variant: push_front of the window that had the focus, where the code has
\* push_back
FocusManager_focus_window_front(fm, window) ==
    LET unfocused == IF fm.focused_window # None
                     THEN [windows |-> <<fm.focused_window>> \o fm.windows,
                           focused_window |-> None]
                     ELSE fm
    IN  IF window = None
        THEN Result(unfocused, "Ok")
        ELSE LET i == position(unfocused.windows, window)
             IN  IF i = 0
                 THEN Result(unfocused, "UnknownWindow")
                 ELSE Result([windows |-> remove_at(unfocused.windows, i),
                              focused_window |-> window], "Ok")

\* variant: the window that gets the focus also stays in the deque
FocusManager_focus_window_kept(fm, window) ==
    LET unfocused == IF fm.focused_window # None
                     THEN [windows |-> Append(fm.windows, fm.focused_window),
                           focused_window |-> None]
                     ELSE fm
    IN  IF window = None
        THEN Result(unfocused, "Ok")
        ELSE IF position(unfocused.windows, window) = 0
             THEN Result(unfocused, "UnknownWindow")
             ELSE Result([unfocused EXCEPT !.focused_window = window], "Ok")

FocusManager_focus_window(fm, window) ==
    LET unfocused == IF fm.focused_window # None
                     THEN [windows |-> Append(fm.windows, fm.focused_window),
                           focused_window |-> None]
                     ELSE fm
    IN  IF window = None
        THEN Result(unfocused, "Ok")
        ELSE LET i == position(unfocused.windows, window)
             IN  IF i = 0
                 THEN Result(unfocused, "UnknownWindow")
                 ELSE Result([windows |-> remove_at(unfocused.windows, i),
                              focused_window |-> window], "Ok")

\* variant: the deque is popped before the focused window is pushed on it
FocusManager_cycle_focus_popped(fm, dir) ==
    LET rest == IF Len(fm.windows) = 0 THEN fm.windows
                ELSE IF dir = "Next" THEN Tail(fm.windows)
                ELSE SubSeq(fm.windows, 1, Len(fm.windows) - 1)
        popped == IF Len(fm.windows) = 0 THEN None
                  ELSE IF dir = "Next" THEN Head(fm.windows)
                  ELSE fm.windows[Len(fm.windows)]
    IN  [windows |-> IF fm.focused_window = None THEN rest
                     ELSE IF dir = "Next" THEN Append(rest, fm.focused_window)
                     ELSE <<fm.focused_window>> \o rest,
         focused_window |-> popped]

\* variant: Prev pushes the focused window on the back, as Next does
FocusManager_cycle_focus_back(fm, dir) ==
    LET pushed == IF fm.focused_window # None
                  THEN Append(fm.windows, fm.focused_window)
                  ELSE fm.windows
    IN  IF Len(pushed) = 0
        THEN [windows |-> pushed, focused_window |-> None]
        ELSE IF dir = "Next"
             THEN [windows |-> Tail(pushed), focused_window |-> Head(pushed)]
             ELSE [windows |-> SubSeq(pushed, 1, Len(pushed) - 1),
                   focused_window |-> pushed[Len(pushed)]]

\* pop_front / pop_back into the focus slot: None on an empty deque
FocusManager_cycle_focus(fm, dir) ==
    IF dir = "Next"
    THEN LET pushed == IF fm.focused_window # None
                       THEN Append(fm.windows, fm.focused_window)
                       ELSE fm.windows
         IN  IF Len(pushed) > 0
             THEN [windows |-> Tail(pushed), focused_window |-> Head(pushed)]
             ELSE [windows |-> pushed, focused_window |-> None]
    ELSE LET pushed == IF fm.focused_window # None
                       THEN <<fm.focused_window>> \o fm.windows
                       ELSE fm.windows
         IN  IF Len(pushed) > 0
             THEN [windows |-> SubSeq(pushed, 1, Len(pushed) - 1),
                   focused_window |-> pushed[Len(pushed)]]
             ELSE [windows |-> pushed, focused_window |-> None]

(***************************************************************************)
(* VerticalLayout: the TilingLayout strategy of TilingWM, FloatWM and      *)
(* MinimiseWM.  Indices of the code are 0-based, those below 1-based.      *)
(***************************************************************************)
NoGeometry == [x |-> -1, y |-> -1, width |-> 0, height |-> 0]

VerticalLayout_get_master_window(tiles) ==
    IF Len(tiles) > 0 THEN Head(tiles) ELSE None

\* variant: the window is taken out and put at the front, the other tiles
\* keep their order (remove and push_front, where the code has
\* swap_remove_front and push_front)
VerticalLayout_swap_with_master_moved(window, tiles) ==
    IF VerticalLayout_get_master_window(tiles) = None
    THEN Result(tiles, "UnknownWindow")
    ELSE LET index == position(tiles, window)
         IN  IF index = 0
             THEN Result(tiles, "UnknownWindow")
             ELSE Result(<<window>> \o remove_at(tiles, index), "Ok")

VerticalLayout_swap_with_master(window, tiles) ==
    IF VerticalLayout_get_master_window(tiles) = None
    THEN Result(tiles, "UnknownWindow")
    ELSE LET index == position(tiles, window)
         IN  IF index = 0
             THEN Result(tiles, "UnknownWindow")
             ELSE Result(<<window>> \o swap_remove_front(tiles, index), "Ok")

neighbour_of(index, dir) == IF dir = "Prev" THEN index - 1 ELSE index + 1

\* variant: the neighbour index is clamped to the ends of the sequence instead
\* of wrapping around them
VerticalLayout_swap_windows_clamped(window, dir, tiles) ==
    LET index == position(tiles, window)
    IN  IF index = 0
        THEN tiles
        ELSE LET n == Len(tiles)
                 index0 == index - 1
                 next == neighbour_of(index0, dir)
                 neighbour == IF next < 0 THEN 0 ELSE IF next >= n THEN n - 1 ELSE next
             IN  swap(tiles, index, neighbour + 1)

\* index0 is the code's 0-based index; a tile count of 0 never gets here,
\* as position() found the window
VerticalLayout_swap_windows(window, dir, tiles) ==
    LET index == position(tiles, window)
    IN  IF index = 0
        THEN tiles
        ELSE LET n == Len(tiles)
                 index0 == index - 1
                 neighbour == (neighbour_of(index0, dir) + n) % n
             IN  swap(tiles, index, neighbour + 1)

\* variant: the last side tile is as high as the others, the remainder of the
\* division is lost
VerticalLayout_get_window_geometry_even(window, screen, tiles) ==
    IF position(tiles, window) = 0
    THEN Result(NoGeometry, "UnknownWindow")
    ELSE IF position(tiles, window) = 1
    THEN Result(Geometry(0, 0, screen.width \div (IF Len(tiles) <= 1 THEN 1 ELSE 2),
                         screen.height), "Ok")
    ELSE Result(Geometry(screen.width \div 2,
                         (position(tiles, window) - 2)
                             * (screen.height \div (Len(tiles) - 1)),
                         screen.width - (screen.width \div 2),
                         screen.height \div (Len(tiles) - 1)), "Ok")

\* variant: the master tile is half the screen wide even when it is alone
VerticalLayout_get_window_geometry_half(window, screen, tiles) ==
    IF position(tiles, window) = 0
    THEN Result(NoGeometry, "UnknownWindow")
    ELSE IF position(tiles, window) = 1
    THEN Result(Geometry(0, 0, screen.width \div 2, screen.height), "Ok")
    ELSE Result(Geometry(screen.width \div 2,
                         (position(tiles, window) - 2)
                             * (screen.height \div (Len(tiles) - 1)),
                         screen.width - (screen.width \div 2),
                         IF position(tiles, window) # Len(tiles)
                         THEN screen.height \div (Len(tiles) - 1)
                         ELSE screen.height
                                  - (screen.height \div (Len(tiles) - 1))
                                        * (Len(tiles) - 2)), "Ok")

VerticalLayout_get_window_geometry(window, screen, tiles) ==
    LET only_master == Len(tiles) <= 1
        master_tile_width == screen.width \div (IF only_master THEN 1 ELSE 2)
        index == position(tiles, window)
    IN  IF index = 0
        THEN Result(NoGeometry, "UnknownWindow")
        ELSE IF index = 1
        THEN Result(Geometry(0, 0, master_tile_width, screen.height), "Ok")
        ELSE LET remaining_width == screen.width - master_tile_width
                 last_index == Len(tiles)
                 side_tile_height == IF Len(tiles) > 1
                                     THEN screen.height \div (Len(tiles) - 1)
                                     ELSE 0
             IN  IF index # last_index
                 THEN Result(Geometry(screen.width \div 2,
                                      (index - 2) * side_tile_height,
                                      remaining_width,
                                      side_tile_height), "Ok")
                 ELSE LET remaining_height ==
                              screen.height - side_tile_height * (last_index - 2)
                      IN  Result(Geometry(screen.width \div 2,
                                          (index - 2) * side_tile_height,
                                          screen.width - (screen.width \div 2),
                                          remaining_height), "Ok")

(***************************************************************************)
(* The managers below are written as the code is: a chain                  *)
(*     a.and_then(|x| b)                                                   *)
(* is an operator for the method, which evaluates a, and one operator for  *)
(* each closure, which takes the Result of a as its last parameter.  A     *)
(* method that mutates the FocusManager it is handed returns               *)
(* st = <<manager, focus manager>>.                                        *)
(***************************************************************************)
\* a manager and the Result of a FocusManager call, as one Result
WithFocus(manager, focused) == Result(<<manager, focused.st>>, focused.res)

\* a.or_else(|_| b)
or_else(a, b) == IF a.res = "Ok" THEN a ELSE b

(***************************************************************************)
(* GapLayout<VerticalLayout>: the VerticalLayout with a gap around every   *)
(* tile.  The struct is its gap; the wrapped VerticalLayout has no fields.  *)
(***************************************************************************)
MaxI32 == 2147483647

\* n as i32 of a u32 n: the same 32 bits, read as two's complement
as_i32(n) == IF n <= MaxI32 THEN n ELSE (n - MaxI32 - 1) - MaxI32 - 1

\* n as u32 of an i32 n
as_u32(n) == IF n >= 0 THEN n ELSE (n + MaxI32 + 1) + MaxI32 + 1

cmp_max(a, b) == IF a >= b THEN a ELSE b

GapLayout_get_master_window(gl, tiles) == VerticalLayout_get_master_window(tiles)

GapLayout_swap_with_master(gl, window, tiles) == VerticalLayout_swap_with_master(window, tiles)

GapLayout_swap_windows(gl, window, dir, tiles) == VerticalLayout_swap_windows(window, dir, tiles)

\* variant: the width and the height are not floored at zero
GapLayout_get_window_geometry_gapped_unfloored(gl, r) ==
    IF r.res # "Ok"
    THEN r
    ELSE Result(Geometry(r.st.x + as_i32(gl.gap),
                         r.st.y + as_i32(gl.gap),
                         as_i32(r.st.width) - 2 * as_i32(gl.gap),
                         as_i32(r.st.height) - 2 * as_i32(gl.gap)), "Ok")

\* the and_then closure: the geometry of the wrapped layout, shrunk by the gap
GapLayout_get_window_geometry_gapped(gl, r) ==
    IF r.res # "Ok"
    THEN r
    ELSE Result(Geometry(r.st.x + as_i32(gl.gap),
                         r.st.y + as_i32(gl.gap),
                         as_u32(cmp_max(0, as_i32(r.st.width) - 2 * as_i32(gl.gap))),
                         as_u32(cmp_max(0, as_i32(r.st.height) - 2 * as_i32(gl.gap)))),
                "Ok")

GapLayout_get_window_geometry(gl, window, screen, tiles) ==
    GapLayout_get_window_geometry_gapped(
        gl, VerticalLayout_get_window_geometry(window, screen, tiles))

(***************************************************************************)
(* TileManager<VerticalLayout>: the tile sequence and, per tile, the       *)
(* WindowWithInfo it was added with (a HashMap: a function on the keys).   *)
(***************************************************************************)
TileManager_new(screen) == [tiles |-> << >>, originals |-> << >>, screen |-> screen]

\* HashMap::insert and HashMap::remove on originals
map_insert(map, key, value) ==
    [k \in (DOMAIN map) \cup {key} |-> IF k = key THEN value ELSE map[k]]

map_remove(map, key) == [k \in (DOMAIN map) \ {key} |-> map[k]]

TileManager_get_windows(tm) == tm.tiles

\* variant: the new tile is pushed at the front and becomes the master
TileManager_add_window_front(tm, window_with_info) ==
    IF ~is_managed(TileManager_get_windows(tm), window_with_info.window)
    THEN Result([tm EXCEPT !.tiles = <<window_with_info.window>> \o tm.tiles,
                           !.originals = map_insert(tm.originals,
                                                    window_with_info.window,
                                                    window_with_info)], "Ok")
    ELSE Result(tm, "AlReadyManagedWindow")

TileManager_add_window(tm, window_with_info) ==
    IF ~is_managed(TileManager_get_windows(tm), window_with_info.window)
    THEN Result([tm EXCEPT !.tiles = Append(tm.tiles, window_with_info.window),
                           !.originals = map_insert(tm.originals,
                                                    window_with_info.window,
                                                    window_with_info)], "Ok")
    ELSE Result(tm, "AlReadyManagedWindow")

\* variant: the original info of the tile stays in the map
TileManager_remove_window_kept(tm, window) ==
    IF position(tm.tiles, window) = 0
    THEN Result(tm, "UnknownWindow")
    ELSE Result([tm EXCEPT !.tiles = remove_at(tm.tiles, position(tm.tiles, window))], "Ok")

TileManager_remove_window(tm, window) ==
    IF position(tm.tiles, window) = 0
    THEN Result(tm, "UnknownWindow")
    ELSE Result([tm EXCEPT !.tiles = remove_at(tm.tiles, position(tm.tiles, window)),
                           !.originals = map_remove(tm.originals, window)], "Ok")

TileManager_get_window_geometry(tm, window) ==
    VerticalLayout_get_window_geometry(window, tm.screen, tm.tiles)

TileManager_get_window_layout(tm) ==
    [i \in 1..Len(tm.tiles) |->
        <<tm.tiles[i], TileManager_get_window_geometry(tm, tm.tiles[i]).st>>]

\* the Ok value is the WindowWithInfo, tagged Tile and not fullscreen
TileManager_get_window_info_geometry(window, geometry) ==
    IF geometry.res = "Ok"
    THEN Result(WindowWithInfo(window, geometry.st, "Tile", FALSE), "Ok")
    ELSE geometry

TileManager_get_window_info(tm, window) ==
    TileManager_get_window_info_geometry(window, TileManager_get_window_geometry(tm, window))

\* variant: the geometry the layout computes, where the code has the info the
\* tile was added with
TileManager_get_original_window_info_computed(tm, window) ==
    TileManager_get_window_info(tm, window)

TileManager_get_original_window_info(tm, window) ==
    IF window \in DOMAIN tm.originals
    THEN Result(tm.originals[window], "Ok")
    ELSE Result(NoGeometry, "UnknownWindow")

TileManager_get_master_window(tm) == VerticalLayout_get_master_window(tm.tiles)

TileManager_swap_with_master_swapped(tm, window, focus_manager, swapped) ==
    IF swapped.res = "Ok"
    THEN WithFocus([tm EXCEPT !.tiles = swapped.st],
                   FocusManager_focus_window(focus_manager, window))
    ELSE Result(<<tm, focus_manager>>, swapped.res)

TileManager_swap_with_master(tm, window, focus_manager) ==
    TileManager_swap_with_master_swapped(tm, window, focus_manager,
        VerticalLayout_swap_with_master(window, tm.tiles))

TileManager_swap_windows(tm, dir, focus_manager) ==
    IF focus_manager.focused_window # None
    THEN [tm EXCEPT !.tiles =
              VerticalLayout_swap_windows(focus_manager.focused_window, dir, tm.tiles)]
    ELSE tm

TileManager_resize_screen(tm, screen) == [tm EXCEPT !.screen = screen]

(***************************************************************************)
(* FloatManager: the z-ordered Vec of floating windows.                    *)
(***************************************************************************)
FloatManager_new(screen) == [screen |-> screen, floaters |-> << >>]

FloatManager_get_windows(fl) == [i \in 1..Len(fl.floaters) |-> fl.floaters[i].window]

FloatManager_add_window(fl, window_with_info) ==
    IF contains(FloatManager_get_windows(fl), window_with_info.window)
    THEN Result(fl, "AlReadyManagedWindow")
    ELSE Result([fl EXCEPT !.floaters = Append(fl.floaters, window_with_info)], "Ok")

FloatManager_remove_window(fl, window) ==
    IF info_position(fl.floaters, window) = 0
    THEN Result(fl, "UnknownWindow")
    ELSE Result([fl EXCEPT !.floaters =
                     remove_at(fl.floaters, info_position(fl.floaters, window))], "Ok")

FloatManager_get_window_info(fl, window) ==
    IF info_position(fl.floaters, window) = 0
    THEN Result(NoGeometry, "UnknownWindow")
    ELSE Result(fl.floaters[info_position(fl.floaters, window)], "Ok")

\* get_window_info, then remove_window, then add_window: the float moves to
\* the end of the Vec
FloatManager_focus_shifted_removed(removed, window_with_info) ==
    IF removed.res # "Ok"
    THEN removed
    ELSE FloatManager_add_window(removed.st, window_with_info)

FloatManager_focus_shifted_info(fl, window, info) ==
    IF info.res # "Ok"
    THEN Result(fl, info.res)
    ELSE FloatManager_focus_shifted_removed(FloatManager_remove_window(fl, window), info.st)

\* variant: the order of the floating windows stays as it is
FloatManager_focus_shifted_unraised(fl, window) == Result(fl, "Ok")

FloatManager_focus_shifted(fl, window) ==
    IF window = None
    THEN Result(fl, "Ok")
    ELSE FloatManager_focus_shifted_info(fl, window, FloatManager_get_window_info(fl, window))

FloatManager_get_window_layout(fl) ==
    [i \in 1..Len(fl.floaters) |-> <<fl.floaters[i].window, fl.floaters[i].geometry>>]

FloatManager_set_window_geometry(fl, window, new_geometry) ==
    IF info_position(fl.floaters, window) = 0
    THEN Result(fl, "UnknownWindow")
    ELSE Result([fl EXCEPT !.floaters[info_position(fl.floaters, window)].geometry =
                     new_geometry], "Ok")

\* variant: the floating windows are moved to the origin of the new screen
FloatManager_resize_screen_moved(fl, screen) ==
    [screen |-> screen,
     floaters |-> [i \in 1..Len(fl.floaters) |->
                      [fl.floaters[i] EXCEPT !.geometry.x = 0, !.geometry.y = 0]]]

FloatManager_resize_screen(fl, screen) == [fl EXCEPT !.screen = screen]

(***************************************************************************)
(* FloatOrTileManager<VerticalLayout>: a TileManager and a FloatManager.   *)
(***************************************************************************)
FloatOrTileManager_new(screen) ==
    [tile_manager |-> TileManager_new(screen), float_manager |-> FloatManager_new(screen)]

\* the manager with the tile manager / float manager a call left, and its Result
InTiles(ft, r) == Result([ft EXCEPT !.tile_manager = r.st], r.res)

InFloats(ft, r) == Result([ft EXCEPT !.float_manager = r.st], r.res)

FloatOrTileManager_get_windows(ft) ==
    TileManager_get_windows(ft.tile_manager) \o FloatManager_get_windows(ft.float_manager)

FloatOrTileManager_add_window(ft, window_with_info) ==
    IF window_with_info.float_or_tile = "Tile"
    THEN InTiles(ft, TileManager_add_window(ft.tile_manager, window_with_info))
    ELSE InFloats(ft, FloatManager_add_window(ft.float_manager, window_with_info))

FloatOrTileManager_remove_window(ft, window) ==
    or_else(InTiles(ft, TileManager_remove_window(ft.tile_manager, window)),
            InFloats(ft, FloatManager_remove_window(ft.float_manager, window)))

\* variant: the floating windows come first
FloatOrTileManager_get_window_layout_floats_first(ft) ==
    FloatManager_get_window_layout(ft.float_manager)
        \o TileManager_get_window_layout(ft.tile_manager)

FloatOrTileManager_get_window_layout(ft) ==
    TileManager_get_window_layout(ft.tile_manager)
        \o FloatManager_get_window_layout(ft.float_manager)

FloatOrTileManager_focus_shifted(ft, window) ==
    IF window = None
    THEN Result(ft, "Ok")
    ELSE IF is_managed(FloatManager_get_windows(ft.float_manager), window)
         THEN InFloats(ft, FloatManager_focus_shifted(ft.float_manager, window))
         ELSE Result(ft, "Ok")

FloatOrTileManager_get_window_info(ft, window) ==
    or_else(TileManager_get_window_info(ft.tile_manager, window),
            FloatManager_get_window_info(ft.float_manager, window))

FloatOrTileManager_resize_screen(ft, screen) ==
    [tile_manager |-> TileManager_resize_screen(ft.tile_manager, screen),
     float_manager |-> FloatManager_resize_screen(ft.float_manager, screen)]

FloatOrTileManager_get_master_window(ft) == TileManager_get_master_window(ft.tile_manager)

FloatOrTileManager_get_floating_windows(ft) == FloatManager_get_windows(ft.float_manager)

FloatOrTileManager_get_tiled_windows(ft) == TileManager_get_windows(ft.tile_manager)

FloatOrTileManager_is_floating(ft, window) ==
    contains(FloatOrTileManager_get_floating_windows(ft), window)

FloatOrTileManager_is_tiled(ft, window) ==
    contains(FloatOrTileManager_get_tiled_windows(ft), window)

\* variant: the float leaves the FloatManager and is not added to the tiles
FloatOrTileManager_toggle_floating_to_tile_dropped(ft, removed, window_with_info) ==
    IF removed.res # "Ok"
    THEN Result(ft, removed.res)
    ELSE Result([ft EXCEPT !.float_manager = removed.st], "Ok")

\* float -> tile: the float is gone from the FloatManager when the add fails
FloatOrTileManager_toggle_floating_to_tile_removed(ft, removed, window_with_info) ==
    IF removed.res # "Ok"
    THEN Result(ft, removed.res)
    ELSE InTiles([ft EXCEPT !.float_manager = removed.st],
                 TileManager_add_window(ft.tile_manager,
                     WindowWithInfo(window_with_info.window, window_with_info.geometry,
                                    "Tile", window_with_info.fullscreen)))

FloatOrTileManager_toggle_floating_to_tile(ft, window, info) ==
    IF info.res # "Ok"
    THEN Result(ft, info.res)
    ELSE FloatOrTileManager_toggle_floating_to_tile_removed(
             ft, FloatManager_remove_window(ft.float_manager, window), info.st)

\* tile -> float, with the info the tile was added with
FloatOrTileManager_toggle_floating_to_float_removed(ft, removed, window_with_info) ==
    IF removed.res # "Ok"
    THEN Result(ft, removed.res)
    ELSE InFloats([ft EXCEPT !.tile_manager = removed.st],
                  FloatManager_add_window(ft.float_manager,
                      WindowWithInfo(window_with_info.window, window_with_info.geometry,
                                     "Float", window_with_info.fullscreen)))

FloatOrTileManager_toggle_floating_to_float(ft, window, info) ==
    IF info.res # "Ok"
    THEN Result(ft, info.res)
    ELSE FloatOrTileManager_toggle_floating_to_float_removed(
             ft, TileManager_remove_window(ft.tile_manager, window), info.st)

FloatOrTileManager_toggle_floating_focused(ft, window) ==
    IF is_managed(FloatManager_get_windows(ft.float_manager), window)
    THEN FloatOrTileManager_toggle_floating_to_tile(
             ft, window, FloatManager_get_window_info(ft.float_manager, window))
    ELSE IF is_managed(TileManager_get_windows(ft.tile_manager), window)
    THEN FloatOrTileManager_toggle_floating_to_float(
             ft, window, TileManager_get_original_window_info(ft.tile_manager, window))
    ELSE Result(ft, "UnknownWindow")

\* the layout manager a closure left, with the focus manager it ran under
UnderFocus(r, focus_manager) == Result(<<r.st, focus_manager>>, r.res)

\* focus_window(Some(window)) comes first and is kept when a later step fails
FloatOrTileManager_toggle_floating_focus(ft, window, focused) ==
    IF focused.res # "Ok"
    THEN Result(<<ft, focused.st>>, focused.res)
    ELSE UnderFocus(FloatOrTileManager_toggle_floating_focused(ft, window), focused.st)

\* variant: the mode is toggled and the focus is left where it was
FloatOrTileManager_toggle_floating_unfocused(ft, window, focus_manager) ==
    UnderFocus(FloatOrTileManager_toggle_floating_focused(ft, window), focus_manager)

FloatOrTileManager_toggle_floating(ft, window, focus_manager) ==
    FloatOrTileManager_toggle_floating_focus(
        ft, window, FocusManager_focus_window(focus_manager, window))

\* a manager method on the pair <<manager, focus manager>> an earlier step left
InLayout(ft, r) == Result(<<[ft EXCEPT !.tile_manager = r.st[1]], r.st[2]>>, r.res)

\* variant: the previous master stays a tile
FloatOrTileManager_swap_with_master_kept(master, swapped) == swapped

FloatOrTileManager_swap_with_master_swapped(master, swapped) ==
    IF swapped.res # "Ok"
    THEN swapped
    ELSE FloatOrTileManager_toggle_floating(swapped.st[1], master, swapped.st[2])

\* variant: a window that is its own master after it was tiled stays a tile
FloatOrTileManager_swap_with_master_toggled_alone(window, toggled) ==
    IF toggled.res # "Ok"
    THEN toggled
    ELSE IF FloatOrTileManager_get_master_window(toggled.st[1]) = None
    THEN Result(toggled.st, "Panic")
    ELSE IF FloatOrTileManager_get_master_window(toggled.st[1]) = window
    THEN InLayout(toggled.st[1],
                  TileManager_swap_with_master(toggled.st[1].tile_manager,
                                               window, toggled.st[2]))
    ELSE FloatOrTileManager_swap_with_master_swapped(
             FloatOrTileManager_get_master_window(toggled.st[1]),
             InLayout(toggled.st[1],
                      TileManager_swap_with_master(toggled.st[1].tile_manager,
                                                   window, toggled.st[2])))

\* get_master_window().unwrap() on None is the result "Panic"
FloatOrTileManager_swap_with_master_toggled(window, toggled) ==
    IF toggled.res # "Ok"
    THEN toggled
    ELSE IF FloatOrTileManager_get_master_window(toggled.st[1]) = None
    THEN Result(toggled.st, "Panic")
    ELSE FloatOrTileManager_swap_with_master_swapped(
             FloatOrTileManager_get_master_window(toggled.st[1]),
             InLayout(toggled.st[1],
                      TileManager_swap_with_master(toggled.st[1].tile_manager,
                                                   window, toggled.st[2])))

FloatOrTileManager_swap_with_master(ft, window, focus_manager) ==
    IF FloatOrTileManager_is_floating(ft, window)
    THEN FloatOrTileManager_swap_with_master_toggled(
             window, FloatOrTileManager_toggle_floating(ft, window, focus_manager))
    ELSE InLayout(ft, TileManager_swap_with_master(ft.tile_manager, window, focus_manager))

\* variant: without a focused tile the master tile is the one that is swapped
FloatOrTileManager_swap_windows_master(ft, dir, focus_manager) ==
    IF /\ focus_manager.focused_window # None
       /\ FloatOrTileManager_is_tiled(ft, focus_manager.focused_window)
    THEN [ft EXCEPT !.tile_manager =
              TileManager_swap_windows(ft.tile_manager, dir, focus_manager)]
    ELSE IF ft.tile_manager.tiles = << >>
         THEN ft
         ELSE [ft EXCEPT !.tile_manager.tiles =
                   VerticalLayout_swap_windows(Head(ft.tile_manager.tiles), dir,
                                               ft.tile_manager.tiles)]

FloatOrTileManager_swap_windows(ft, dir, focus_manager) ==
    IF focus_manager.focused_window = None
    THEN ft
    ELSE IF FloatOrTileManager_is_tiled(ft, focus_manager.focused_window)
         THEN [ft EXCEPT !.tile_manager =
                   TileManager_swap_windows(ft.tile_manager, dir, focus_manager)]
         ELSE ft

\* variant: the FloatManager's error is returned as it is
FloatOrTileManager_set_window_geometry_unmapped(ft, window, r) ==
    IF r.res = "Ok"
    THEN Result([ft EXCEPT !.float_manager = r.st], "Ok")
    ELSE Result(ft, r.res)

\* the FloatManager's error becomes NotFloatingWindow when the window is a tile
FloatOrTileManager_set_window_geometry_set(ft, window, r) ==
    IF r.res = "Ok"
    THEN Result([ft EXCEPT !.float_manager = r.st], "Ok")
    ELSE IF is_managed(TileManager_get_windows(ft.tile_manager), window)
         THEN Result(ft, "NotFloatingWindow")
         ELSE Result(ft, r.res)

FloatOrTileManager_set_window_geometry(ft, window, new_geometry) ==
    FloatOrTileManager_set_window_geometry_set(ft, window,
        FloatManager_set_window_geometry(ft.float_manager, window, new_geometry))

(***************************************************************************)
(* MinimiseAssistantManager: the Vec of minimised windows with their info. *)
(***************************************************************************)
MinimiseAssistantManager_new == [minis |-> << >>]

MinimiseAssistantManager_get_windows(ma) ==
    [i \in 1..Len(ma.minis) |-> ma.minis[i].window]

\* variant: the info is stored as that of a tile
MinimiseAssistantManager_add_window_as_tile(ma, window_with_info) ==
    IF is_managed(MinimiseAssistantManager_get_windows(ma), window_with_info.window)
    THEN Result(ma, "AlReadyManagedWindow")
    ELSE Result([ma EXCEPT !.minis =
                     Append(ma.minis, [window_with_info EXCEPT !.float_or_tile = "Tile"])],
                "Ok")

MinimiseAssistantManager_add_window(ma, window_with_info) ==
    IF is_managed(MinimiseAssistantManager_get_windows(ma), window_with_info.window)
    THEN Result(ma, "AlReadyManagedWindow")
    ELSE Result([ma EXCEPT !.minis = Append(ma.minis, window_with_info)], "Ok")

\* variant: the last minimised window takes the place of the removed one
MinimiseAssistantManager_remove_window_swapped(ma, window) ==
    IF info_position(ma.minis, window) = 0
    THEN Result(ma, "UnknownWindow")
    ELSE Result([ma EXCEPT !.minis =
                     remove_at(swap(ma.minis, info_position(ma.minis, window),
                                    Len(ma.minis)),
                               Len(ma.minis))],
                "Ok")

MinimiseAssistantManager_remove_window(ma, window) ==
    IF info_position(ma.minis, window) = 0
    THEN Result(ma, "UnknownWindow")
    ELSE Result([ma EXCEPT !.minis = remove_at(ma.minis, info_position(ma.minis, window))],
                "Ok")

MinimiseAssistantManager_get_window_info(ma, window) ==
    IF info_position(ma.minis, window) = 0
    THEN Result(NoGeometry, "UnknownWindow")
    ELSE Result(ma.minis[info_position(ma.minis, window)], "Ok")

(***************************************************************************)
(* MinimiseManager<FloatOrTileManager<VerticalLayout>>: the layout manager *)
(* and the assistant holding the minimised windows.                        *)
(***************************************************************************)
MinimiseManager_new(layout_manager) ==
    [layout_manager |-> layout_manager,
     minimise_assistant_manager |-> MinimiseAssistantManager_new]

\* the manager with the layout manager / assistant a call left, and its Result
InLayoutManager(m, r) == Result([m EXCEPT !.layout_manager = r.st], r.res)

InAssistant(m, r) == Result([m EXCEPT !.minimise_assistant_manager = r.st], r.res)

\* the same for a call that was handed the FocusManager
InLayoutManagerWithFocus(m, r) ==
    Result(<<[m EXCEPT !.layout_manager = r.st[1]], r.st[2]>>, r.res)

FloatOrTileManager_get_screen(ft) == ft.float_manager.screen

MinimiseManager_add_window(m, window_with_info) ==
    InLayoutManager(m, FloatOrTileManager_add_window(m.layout_manager, window_with_info))

MinimiseManager_remove_window(m, window) ==
    or_else(InLayoutManager(m, FloatOrTileManager_remove_window(m.layout_manager, window)),
            InAssistant(m, MinimiseAssistantManager_remove_window(
                               m.minimise_assistant_manager, window)))

\* variant: the minimised windows are part of the layout
MinimiseManager_get_window_layout_all(m) ==
    FloatOrTileManager_get_window_layout(m.layout_manager)
        \o [i \in 1..Len(m.minimise_assistant_manager.minis) |->
               <<m.minimise_assistant_manager.minis[i].window,
                 m.minimise_assistant_manager.minis[i].geometry>>]

MinimiseManager_get_window_layout(m) ==
    FloatOrTileManager_get_window_layout(m.layout_manager)

\* a minimised window that gets the focus goes back to the layout manager
\* with the info it was minimised with
MinimiseManager_focus_shifted_removed(m, removed, info) ==
    IF removed.res # "Ok"
    THEN Result(m, removed.res)
    ELSE InLayoutManager([m EXCEPT !.minimise_assistant_manager = removed.st],
                         FloatOrTileManager_add_window(m.layout_manager, info))

MinimiseManager_focus_shifted_info(m, window, info) ==
    IF info.res # "Ok"
    THEN Result(m, info.res)
    ELSE MinimiseManager_focus_shifted_removed(
             m, MinimiseAssistantManager_remove_window(m.minimise_assistant_manager, window),
             info.st)

MinimiseManager_focus_shifted_match(m, window) ==
    IF window = None
    THEN Result(m, "Ok")
    ELSE IF is_managed(MinimiseAssistantManager_get_windows(m.minimise_assistant_manager),
                       window)
         THEN MinimiseManager_focus_shifted_info(
                  m, window,
                  MinimiseAssistantManager_get_window_info(m.minimise_assistant_manager,
                                                           window))
         ELSE Result(m, "Ok")

MinimiseManager_focus_shifted_matched(window, matched) ==
    IF matched.res # "Ok"
    THEN matched
    ELSE InLayoutManager(matched.st,
                         FloatOrTileManager_focus_shifted(matched.st.layout_manager, window))

MinimiseManager_focus_shifted(m, window) ==
    MinimiseManager_focus_shifted_matched(window, MinimiseManager_focus_shifted_match(m, window))

\* variant: only the layout manager is asked, the minimised windows are not
MinimiseManager_get_window_info_visible(m, window) ==
    FloatOrTileManager_get_window_info(m.layout_manager, window)

MinimiseManager_get_window_info(m, window) ==
    or_else(FloatOrTileManager_get_window_info(m.layout_manager, window),
            MinimiseAssistantManager_get_window_info(m.minimise_assistant_manager, window))

MinimiseManager_get_screen(m) == FloatOrTileManager_get_screen(m.layout_manager)

MinimiseManager_resize_screen(m, screen) ==
    [m EXCEPT !.layout_manager = FloatOrTileManager_resize_screen(m.layout_manager, screen)]

MinimiseManager_get_master_window(m) ==
    FloatOrTileManager_get_master_window(m.layout_manager)

MinimiseManager_get_floating_windows(m) ==
    FloatOrTileManager_get_floating_windows(m.layout_manager)

MinimiseManager_get_tiled_windows(m) ==
    FloatOrTileManager_get_tiled_windows(m.layout_manager)

MinimiseManager_get_minimised_windows(m) ==
    MinimiseAssistantManager_get_windows(m.minimise_assistant_manager)

\* minimised -> visible: out of the assistant, into the layout manager with
\* the stored info, then focus_window(Some(window))
MinimiseManager_toggle_minimised_restore_added(window, focus_manager, added) ==
    IF added.res # "Ok"
    THEN Result(<<added.st, focus_manager>>, added.res)
    ELSE WithFocus(added.st, FocusManager_focus_window(focus_manager, window))

MinimiseManager_toggle_minimised_restore_removed(m, window, focus_manager, removed, info) ==
    IF removed.res # "Ok"
    THEN Result(<<m, focus_manager>>, removed.res)
    ELSE MinimiseManager_toggle_minimised_restore_added(
             window, focus_manager,
             InLayoutManager([m EXCEPT !.minimise_assistant_manager = removed.st],
                             FloatOrTileManager_add_window(m.layout_manager, info)))

MinimiseManager_toggle_minimised_restore(m, window, focus_manager, info) ==
    IF info.res # "Ok"
    THEN Result(<<m, focus_manager>>, info.res)
    ELSE MinimiseManager_toggle_minimised_restore_removed(
             m, window, focus_manager,
             MinimiseAssistantManager_remove_window(m.minimise_assistant_manager, window),
             info.st)

\* variant: the focus falls back to the window before it in the focus
\* sequence, where the code leaves nobody focused
MinimiseManager_toggle_minimised_minimise_fallback(window, focus_manager, added) ==
    IF added.res # "Ok"
    THEN Result(<<added.st, focus_manager>>, added.res)
    ELSE IF focus_manager.focused_window # None /\ focus_manager.focused_window = window
         THEN Result(<<added.st, FocusManager_cycle_focus(focus_manager, "Prev")>>, "Ok")
         ELSE Result(<<added.st, focus_manager>>, "Ok")

\* visible -> minimised: the info the layout manager reports goes to the
\* assistant, and the window loses the focus when it has it
MinimiseManager_toggle_minimised_minimise_added(window, focus_manager, added) ==
    IF added.res # "Ok"
    THEN Result(<<added.st, focus_manager>>, added.res)
    ELSE IF focus_manager.focused_window # None /\ focus_manager.focused_window = window
         THEN WithFocus(added.st, FocusManager_focus_window(focus_manager, None))
         ELSE Result(<<added.st, focus_manager>>, "Ok")

\* variant: the window stays in the layout manager when it is minimised
MinimiseManager_toggle_minimised_minimise_kept(m, window, focus_manager, removed, info) ==
    IF removed.res # "Ok"
    THEN Result(<<m, focus_manager>>, removed.res)
    ELSE MinimiseManager_toggle_minimised_minimise_added(
             window, focus_manager,
             InAssistant(m, MinimiseAssistantManager_add_window(
                                m.minimise_assistant_manager, info)))

MinimiseManager_toggle_minimised_minimise_removed(m, window, focus_manager, removed, info) ==
    IF removed.res # "Ok"
    THEN Result(<<m, focus_manager>>, removed.res)
    ELSE MinimiseManager_toggle_minimised_minimise_added(
             window, focus_manager,
             InAssistant([m EXCEPT !.layout_manager = removed.st],
                         MinimiseAssistantManager_add_window(m.minimise_assistant_manager,
                                                             info)))

MinimiseManager_toggle_minimised_minimise(m, window, focus_manager, info) ==
    IF info.res # "Ok"
    THEN Result(<<m, focus_manager>>, info.res)
    ELSE MinimiseManager_toggle_minimised_minimise_removed(
             m, window, focus_manager,
             FloatOrTileManager_remove_window(m.layout_manager, window), info.st)

MinimiseManager_toggle_minimised(m, window, focus_manager) ==
    IF is_managed(MinimiseAssistantManager_get_windows(m.minimise_assistant_manager),
                  window)
    THEN MinimiseManager_toggle_minimised_restore(
             m, window, focus_manager,
             MinimiseAssistantManager_get_window_info(m.minimise_assistant_manager, window))
    ELSE MinimiseManager_toggle_minimised_minimise(
             m, window, focus_manager,
             FloatOrTileManager_get_window_info(m.layout_manager, window))

MinimiseManager_maximise_if_minimised(m, window, focus_manager) ==
    IF is_managed(MinimiseAssistantManager_get_windows(m.minimise_assistant_manager),
                  window)
    THEN MinimiseManager_toggle_minimised(m, window, focus_manager)
    ELSE Result(<<m, focus_manager>>, "Ok")

MinimiseManager_swap_with_master_maximised(window, maximised) ==
    IF maximised.res # "Ok"
    THEN maximised
    ELSE InLayoutManagerWithFocus(
             maximised.st[1],
             FloatOrTileManager_swap_with_master(maximised.st[1].layout_manager, window,
                                                 maximised.st[2]))

MinimiseManager_swap_with_master(m, window, focus_manager) ==
    MinimiseManager_swap_with_master_maximised(
        window, MinimiseManager_maximise_if_minimised(m, window, focus_manager))

MinimiseManager_swap_windows(m, dir, focus_manager) ==
    [m EXCEPT !.layout_manager =
         FloatOrTileManager_swap_windows(m.layout_manager, dir, focus_manager)]

MinimiseManager_set_window_geometry(m, window, new_geometry) ==
    InLayoutManager(m, FloatOrTileManager_set_window_geometry(m.layout_manager, window,
                                                              new_geometry))

MinimiseManager_toggle_floating_maximised(window, maximised) ==
    IF maximised.res # "Ok"
    THEN maximised
    ELSE InLayoutManagerWithFocus(
             maximised.st[1],
             FloatOrTileManager_toggle_floating(maximised.st[1].layout_manager, window,
                                                maximised.st[2]))

MinimiseManager_toggle_floating(m, window, focus_manager) ==
    MinimiseManager_toggle_floating_maximised(
        window, MinimiseManager_maximise_if_minimised(m, window, focus_manager))

(***************************************************************************)
(* MinimiseWM: a FocusManager and a MinimiseManager.  FloatWM is the same  *)
(* code without toggle_minimised, and TilingWM the same without floating   *)
(* windows.                                                                *)
(***************************************************************************)
MinimiseWM_new(screen) ==
    [focus_manager |-> FocusManager_new,
     minimise_manager |-> MinimiseManager_new(FloatOrTileManager_new(screen))]

\* the struct of a pair <<minimise manager, focus manager>>
WM(pair) == [focus_manager |-> pair[2], minimise_manager |-> pair[1]]

\* the struct a call of the MinimiseManager left, and its Result
InManager(self, r) == Result([self EXCEPT !.minimise_manager = r.st], r.res)

InManagerWithFocus(r) == Result(WM(r.st), r.res)

MinimiseWM_get_windows(self) == FocusManager_get_windows(self.focus_manager)

MinimiseWM_get_focused_window(self) == self.focus_manager.focused_window

\* variant: the MinimiseManager is called whatever the FocusManager returned
MinimiseWM_add_window_unchecked(self, window_with_info, focused) ==
    InManager([self EXCEPT !.focus_manager = focused.st],
              MinimiseManager_add_window(self.minimise_manager, window_with_info))

MinimiseWM_add_window_focused(self, window_with_info, focused) ==
    IF focused.res # "Ok"
    THEN Result([self EXCEPT !.focus_manager = focused.st], focused.res)
    ELSE InManager([self EXCEPT !.focus_manager = focused.st],
                   MinimiseManager_add_window(self.minimise_manager, window_with_info))

MinimiseWM_add_window(self, window_with_info) ==
    MinimiseWM_add_window_focused(
        self, window_with_info,
        FocusManager_add_window(self.focus_manager, window_with_info.window))

MinimiseWM_remove_window_removed(self, window, removed) ==
    IF removed.res # "Ok"
    THEN Result([self EXCEPT !.focus_manager = removed.st], removed.res)
    ELSE InManager([self EXCEPT !.focus_manager = removed.st],
                   MinimiseManager_remove_window(self.minimise_manager, window))

MinimiseWM_remove_window(self, window) ==
    MinimiseWM_remove_window_removed(
        self, window, FocusManager_remove_window(self.focus_manager, window))

MinimiseWM_get_window_layout(self) ==
    [focused_window |-> MinimiseWM_get_focused_window(self),
     windows |-> MinimiseManager_get_window_layout(self.minimise_manager)]

MinimiseWM_focus_window_focused(m, window, focused) ==
    IF focused.res # "Ok"
    THEN Result(WM(<<m, focused.st>>), focused.res)
    ELSE InManager(WM(<<m, focused.st>>), MinimiseManager_focus_shifted(m, window))

MinimiseWM_focus_window_maximised(window, maximised) ==
    IF maximised.res # "Ok"
    THEN InManagerWithFocus(maximised)
    ELSE MinimiseWM_focus_window_focused(
             maximised.st[1], window,
             FocusManager_focus_window(maximised.st[2], window))

MinimiseWM_focus_window(self, window) ==
    MinimiseWM_focus_window_maximised(
        window,
        IF window = None
        THEN Result(<<self.minimise_manager, self.focus_manager>>, "Ok")
        ELSE MinimiseManager_maximise_if_minimised(self.minimise_manager, window,
                                                   self.focus_manager))

\* variant: the MinimiseManager is not told that the focus shifted
MinimiseWM_cycle_focus_unshifted(self, cycled) ==
    [focus_manager |-> cycled, minimise_manager |-> self.minimise_manager]

\* the Result of focus_shifted is dropped (.is_ok())
MinimiseWM_cycle_focus_cycled(self, cycled) ==
    [focus_manager |-> cycled,
     minimise_manager |->
         MinimiseManager_focus_shifted(self.minimise_manager, cycled.focused_window).st]

MinimiseWM_cycle_focus(self, dir) ==
    MinimiseWM_cycle_focus_cycled(self, FocusManager_cycle_focus(self.focus_manager, dir))

MinimiseWM_get_window_info(self, window) ==
    MinimiseManager_get_window_info(self.minimise_manager, window)

MinimiseWM_get_screen(self) == MinimiseManager_get_screen(self.minimise_manager)

MinimiseWM_resize_screen(self, screen) ==
    [self EXCEPT !.minimise_manager =
         MinimiseManager_resize_screen(self.minimise_manager, screen)]

MinimiseWM_swap_with_master(self, window) ==
    InManagerWithFocus(MinimiseManager_swap_with_master(self.minimise_manager, window,
                                                        self.focus_manager))

MinimiseWM_swap_windows(self, dir) ==
    [self EXCEPT !.minimise_manager =
         MinimiseManager_swap_windows(self.minimise_manager, dir, self.focus_manager)]

MinimiseWM_get_floating_windows(self) ==
    MinimiseManager_get_floating_windows(self.minimise_manager)

MinimiseWM_toggle_floating(self, window) ==
    InManagerWithFocus(MinimiseManager_toggle_floating(self.minimise_manager, window,
                                                       self.focus_manager))

MinimiseWM_set_window_geometry(self, window, new_geometry) ==
    InManager(self, MinimiseManager_set_window_geometry(self.minimise_manager, window,
                                                        new_geometry))

MinimiseWM_get_minimised_windows(self) ==
    MinimiseManager_get_minimised_windows(self.minimise_manager)

MinimiseWM_toggle_minimised(self, window) ==
    InManagerWithFocus(MinimiseManager_toggle_minimised(self.minimise_manager, window,
                                                        self.focus_manager))

(***************************************************************************)
(* MultiWorkspaces<MinimiseWM> (g_multiple_workspaces.rs): a vector of     *)
(* window managers, the index of the current one (counted from 0, as the   *)
(* vector's indices are) and the screen.  Every method of the wrapped      *)
(* window manager is forwarded to the current workspace.                   *)
(***************************************************************************)
MultiWorkspaces_new(screen) ==
    [workspaces |-> <<MinimiseWM_new(screen)>>,
     current_workspace |-> 0,
     screen |-> screen]

MultiWorkspaces_get_current_workspace_index(self) == self.current_workspace

\* Vec::get(index).ok_or(WorkspaceIndexOutOfBound(index))
MultiWorkspaces_get_workspace(self, index) ==
    IF index < Len(self.workspaces)
    THEN Result(self.workspaces[index + 1], "Ok")
    ELSE Result(None, "WorkspaceIndexOutOfBound")

MultiWorkspaces_get_current_workspace(self) ==
    MultiWorkspaces_get_workspace(self, MultiWorkspaces_get_current_workspace_index(self))

\* and_then(|wm| wm.method(..).map_err(|_| WrappedError)): the current
\* workspace is the one the method leaves, and any error of it is WrappedError
MultiWorkspaces_and_then(self, r) ==
    Result([self EXCEPT !.workspaces[self.current_workspace + 1] = r.st],
           IF r.res \in {"Ok", "Panic"} THEN r.res ELSE "WrappedError")

\* match get_current_workspace_mut() { Err(_) => {}, Ok(wm) => wm.method(dir) }
MultiWorkspaces_matched(self, changed) ==
    [self EXCEPT !.workspaces[self.current_workspace + 1] = changed]

MultiWorkspaces_add_window(self, window_with_info) ==
    IF MultiWorkspaces_get_current_workspace(self).res # "Ok"
    THEN Result(self, MultiWorkspaces_get_current_workspace(self).res)
    ELSE MultiWorkspaces_and_then(self,
             MinimiseWM_add_window(MultiWorkspaces_get_current_workspace(self).st,
                                   window_with_info))

MultiWorkspaces_remove_window(self, window) ==
    IF MultiWorkspaces_get_current_workspace(self).res # "Ok"
    THEN Result(self, MultiWorkspaces_get_current_workspace(self).res)
    ELSE MultiWorkspaces_and_then(self,
             MinimiseWM_remove_window(MultiWorkspaces_get_current_workspace(self).st, window))

MultiWorkspaces_focus_window(self, window) ==
    IF MultiWorkspaces_get_current_workspace(self).res # "Ok"
    THEN Result(self, MultiWorkspaces_get_current_workspace(self).res)
    ELSE MultiWorkspaces_and_then(self,
             MinimiseWM_focus_window(MultiWorkspaces_get_current_workspace(self).st, window))

MultiWorkspaces_cycle_focus(self, dir) ==
    IF MultiWorkspaces_get_current_workspace(self).res # "Ok"
    THEN self
    ELSE MultiWorkspaces_matched(self,
             MinimiseWM_cycle_focus(MultiWorkspaces_get_current_workspace(self).st, dir))

\* every workspace of the vector is resized
MultiWorkspaces_resize_screen(self, screen) ==
    [self EXCEPT !.screen = screen,
                 !.workspaces = [index \in 1..Len(self.workspaces) |->
                                     MinimiseWM_resize_screen(self.workspaces[index], screen)]]

\* variant: the index is taken without a look at the number of workspaces
MultiWorkspaces_switch_workspace_unchecked(self, index) ==
    Result([self EXCEPT !.current_workspace = index], "Ok")

MultiWorkspaces_switch_workspace(self, index) ==
    IF index < Len(self.workspaces)
    THEN Result([self EXCEPT !.current_workspace = index], "Ok")
    ELSE IF index = Len(self.workspaces)
    THEN Result([self EXCEPT !.workspaces = Append(@, MinimiseWM_new(self.screen)),
                             !.current_workspace = index], "Ok")
    ELSE Result(self, "WorkspaceIndexOutOfBound")

MultiWorkspaces_toggle_floating(self, window) ==
    IF MultiWorkspaces_get_current_workspace(self).res # "Ok"
    THEN Result(self, MultiWorkspaces_get_current_workspace(self).res)
    ELSE MultiWorkspaces_and_then(self,
             MinimiseWM_toggle_floating(MultiWorkspaces_get_current_workspace(self).st, window))

MultiWorkspaces_set_window_geometry(self, window, new_geometry) ==
    IF MultiWorkspaces_get_current_workspace(self).res # "Ok"
    THEN Result(self, MultiWorkspaces_get_current_workspace(self).res)
    ELSE MultiWorkspaces_and_then(self,
             MinimiseWM_set_window_geometry(MultiWorkspaces_get_current_workspace(self).st,
                                            window, new_geometry))

MultiWorkspaces_toggle_minimised(self, window) ==
    IF MultiWorkspaces_get_current_workspace(self).res # "Ok"
    THEN Result(self, MultiWorkspaces_get_current_workspace(self).res)
    ELSE MultiWorkspaces_and_then(self,
             MinimiseWM_toggle_minimised(MultiWorkspaces_get_current_workspace(self).st, window))

MultiWorkspaces_swap_with_master(self, window) ==
    IF MultiWorkspaces_get_current_workspace(self).res # "Ok"
    THEN Result(self, MultiWorkspaces_get_current_workspace(self).res)
    ELSE MultiWorkspaces_and_then(self,
             MinimiseWM_swap_with_master(MultiWorkspaces_get_current_workspace(self).st, window))

MultiWorkspaces_swap_windows(self, dir) ==
    IF MultiWorkspaces_get_current_workspace(self).res # "Ok"
    THEN self
    ELSE MultiWorkspaces_matched(self,
             MinimiseWM_swap_windows(MultiWorkspaces_get_current_workspace(self).st, dir))

(***************************************************************************)
(* Inputs: the screens and geometries of the repository's tests.           *)
(***************************************************************************)
SCREEN == Screen(800, 600)
SCREEN1 == Screen(200, 300)
SCREEN2 == Screen(301, 401)
SOME_GEOM_A == Geometry(10, 10, 100, 100)
SOME_GEOM_B == Geometry(0, 0, 100, 100)
TEST_GAP == 5

Screens == {SCREEN, SCREEN2}
Geometries == {SOME_GEOM_A, SOME_GEOM_B}
Directions == {"Next", "Prev"}

\* the WindowWithInfo values add_window is called with
Infos ==
    {WindowWithInfo(w, g, m, FALSE) : w \in Windows, g \in Geometries, m \in {"Tile", "Float"}}

\* WindowWithInfo::new_tiled(w, SOME_GEOM_A), as the tests of every window manager
TiledInfos == {WindowWithInfo(w, SOME_GEOM_A, "Tile", FALSE) : w \in TileWindows}

\* tiled or floating, with either geometry
FloatInfos ==
    {WindowWithInfo(w, g, m, FALSE) :
        w \in 1..MaxFloatWin, g \in Geometries, m \in {"Tile", "Float"}}

\* one geometry, tiled or floating
FocusInfos ==
    {WindowWithInfo(w, SOME_GEOM_A, m, FALSE) : w \in 1..MaxFocusWin, m \in {"Tile", "Float"}}

\* duplicate-free tile sequences of at most MaxTiles windows
TileSequences ==
    {t \in UNION {[1..k -> 1..MaxTiles] : k \in 0..MaxTiles} :
        \A i, j \in 1..Len(t) : i # j => t[i] # t[j]}

LayoutScreens ==
    {Screen(w, h) : w \in 0..MaxSide, h \in 0..MaxSide} \cup {SCREEN, SCREEN1, SCREEN2}

(***************************************************************************)
(* State.  focus_manager and minimise_manager are the fields of MinimiseWM;*)
(* last records the call that led to the state: its name, its window and   *)
(* direction arguments, its Result, and what the window's bucket and the   *)
(* focused window were before the call.  l_screen, l_tiles, l_window,      *)
(* l_geometry and l_layout are the arguments and results of calls of the   *)
(* VerticalLayout on its own, and l_swapped records its last call of       *)
(* swap_with_master: the tiles before the call, the window, the Result.    *)
(* l_gap is the gap of the GapLayout when that is the layout called.       *)
(* multi_workspaces is the MultiWorkspaces struct, multi_last the name,    *)
(* the argument and the Result of the last call of one of its methods.     *)
(***************************************************************************)
VARIABLES focus_manager, minimise_manager, last,
          l_screen, l_tiles, l_window, l_geometry, l_layout, l_swapped, l_gap,
          multi_workspaces, multi_last

wm_vars == <<focus_manager, minimise_manager, last, multi_workspaces, multi_last>>
layout_vars == <<l_screen, l_tiles, l_window, l_geometry, l_layout, l_swapped, l_gap>>
vars == <<focus_manager, minimise_manager, last,
          l_screen, l_tiles, l_window, l_geometry, l_layout, l_swapped, l_gap,
          multi_workspaces, multi_last>>

\* the MinimiseWM struct of the current state
wm == [focus_manager |-> focus_manager, minimise_manager |-> minimise_manager]

tiles == minimise_manager.layout_manager.tile_manager.tiles
originals == minimise_manager.layout_manager.tile_manager.originals
floaters == minimise_manager.layout_manager.float_manager.floaters
minis == minimise_manager.minimise_assistant_manager.minis

\* the bucket a window is in
BucketOf(m, window) ==
    IF contains(MinimiseManager_get_minimised_windows(m), window) THEN "Minimised"
    ELSE IF contains(MinimiseManager_get_floating_windows(m), window) THEN "Float"
    ELSE IF contains(MinimiseManager_get_tiled_windows(m), window) THEN "Tile"
    ELSE "Unmanaged"

Call(op, window, dir, res) ==
    [op |-> op, window |-> window, dir |-> dir, res |-> res,
     was |-> BucketOf(minimise_manager, window),
     info |-> MinimiseManager_get_window_info(minimise_manager, window).st,
     pf |-> focus_manager.focused_window]

\* the state after a call: the struct it leaves and the record of the call
Becomes(new, call) ==
    /\ focus_manager' = new.focus_manager
    /\ minimise_manager' = new.minimise_manager
    /\ last' = call
    /\ UNCHANGED layout_vars
    /\ UNCHANGED <<multi_workspaces, multi_last>>

\* the state after a call that returns a Result
Returns(op, window, r) == Becomes(r.st, Call(op, window, "-", r.res))

InitWM(screens) ==
    /\ \E screen \in screens :
          /\ focus_manager = MinimiseWM_new(screen).focus_manager
          /\ minimise_manager = MinimiseWM_new(screen).minimise_manager
    /\ last = [op |-> "new", window |-> None, dir |-> "-", res |-> "Ok",
               was |-> "Unmanaged", info |-> NoGeometry, pf |-> None]
    /\ multi_workspaces = MultiWorkspaces_new(SCREEN)
    /\ multi_last = [op |-> "new", arg |-> None, res |-> "Ok"]

InitLayout ==
    /\ l_screen = SCREEN
    /\ l_tiles = << >>
    /\ l_window = None
    /\ l_geometry = Result(NoGeometry, "-")
    /\ l_layout = << >>
    /\ l_swapped = [tiles |-> << >>, window |-> None, res |-> "-"]
    /\ l_gap = 0

Init == InitWM({SCREEN}) /\ InitLayout

add_window(infos) ==
    \E info \in infos :
        Returns("add_window", info.window, MinimiseWM_add_window(wm, info))

remove_window(ws) ==
    \E w \in ws :
        Returns("remove_window", w, MinimiseWM_remove_window(wm, w))

focus_window(ws) ==
    \E w \in ws \cup {None} :
        Returns("focus_window", w, MinimiseWM_focus_window(wm, w))

cycle_focus ==
    \E dir \in Directions :
        Becomes(MinimiseWM_cycle_focus(wm, dir), Call("cycle_focus", None, dir, "Ok"))

resize_screen(screens) ==
    \E screen \in screens :
        Becomes(MinimiseWM_resize_screen(wm, screen), Call("resize_screen", None, "-", "Ok"))

swap_with_master(ws) ==
    \E w \in ws :
        Returns("swap_with_master", w, MinimiseWM_swap_with_master(wm, w))

swap_windows ==
    \E dir \in Directions :
        Becomes(MinimiseWM_swap_windows(wm, dir), Call("swap_windows", None, dir, "Ok"))

toggle_floating(ws) ==
    \E w \in ws :
        Returns("toggle_floating", w, MinimiseWM_toggle_floating(wm, w))

set_window_geometry(ws) ==
    \E w \in ws, g \in Geometries :
        Returns("set_window_geometry", w, MinimiseWM_set_window_geometry(wm, w, g))

toggle_minimised(ws) ==
    \E w \in ws :
        Returns("toggle_minimised", w, MinimiseWM_toggle_minimised(wm, w))

\* the operations of MinimiseWM on the windows 1..MaxWin, tiled, floating and
\* minimised, on the screen SCREEN
Next ==
    \/ add_window(Infos)
    \/ remove_window(Windows)
    \/ focus_window(Windows)
    \/ cycle_focus
    \/ swap_with_master(Windows)
    \/ swap_windows
    \/ toggle_floating(Windows)
    \/ set_window_geometry(Windows)
    \/ toggle_minimised(Windows)

Spec == Init /\ [][Next]_vars

\* the operations of a tiling window manager on the tiled windows 1..MaxTileWin
\* (and on one id more, which is never added), on the screens of Screens
TilingInit == InitWM(Screens) /\ InitLayout

TilingNext ==
    \/ add_window(TiledInfos)
    \/ remove_window(1..(MaxTileWin + 1))
    \/ focus_window(1..(MaxTileWin + 1))
    \/ cycle_focus
    \/ resize_screen(Screens)
    \/ swap_with_master(1..(MaxTileWin + 1))
    \/ swap_windows

TilingSpec == TilingInit /\ [][TilingNext]_vars

\* the operations on focus, mode and visibility of MinimiseWM on the windows
\* 1..MaxFocusWin, added tiled or floating with one geometry, on the screen
\* SCREEN; the windows 1..MaxMinWin are the ones toggle_minimised is called on
FocusNext ==
    \/ add_window(FocusInfos)
    \/ remove_window(1..MaxFocusWin)
    \/ focus_window(1..MaxFocusWin)
    \/ cycle_focus
    \/ toggle_floating(1..MaxFocusWin)
    \/ toggle_minimised(1..MaxMinWin)

FocusSpec == Init /\ [][FocusNext]_vars

\* the operations that minimise and restore windows in MinimiseWM, on the
\* windows 1..MaxOrderWin, added floating or (1..MaxOrderTile) tiled with one
\* geometry, on the screen SCREEN
OrderInfos ==
    {WindowWithInfo(w, SOME_GEOM_A, "Float", FALSE) : w \in 1..MaxOrderWin}
        \cup {WindowWithInfo(w, SOME_GEOM_A, "Tile", FALSE) : w \in 1..MaxOrderTile}

OrderNext ==
    \/ add_window(OrderInfos)
    \/ remove_window(1..MaxOrderWin)
    \/ focus_window(1..MaxOrderWin)
    \/ toggle_minimised(1..MaxOrderWin)

OrderSpec == Init /\ [][OrderNext]_vars

\* every operation of MinimiseWM, resize_screen included, on the windows
\* 1..MaxWin and the screens of Screens; the windows 1..MaxMinWin are the ones
\* toggle_minimised is called on
ScreenNext ==
    \/ add_window(Infos)
    \/ remove_window(Windows)
    \/ focus_window(Windows)
    \/ cycle_focus
    \/ resize_screen(Screens)
    \/ swap_with_master(Windows)
    \/ swap_windows
    \/ toggle_floating(Windows)
    \/ set_window_geometry(Windows)
    \/ toggle_minimised(1..MaxMinWin)

ScreenSpec == Init /\ [][ScreenNext]_vars

\* the operations of FloatWM, which are those of MinimiseWM without
\* toggle_minimised, on the windows 1..MaxFloatWin, on the screen SCREEN
FloatNext ==
    \/ add_window(FloatInfos)
    \/ remove_window(1..MaxFloatWin)
    \/ focus_window(1..MaxFloatWin)
    \/ cycle_focus
    \/ swap_with_master(1..MaxFloatWin)
    \/ swap_windows
    \/ toggle_floating(1..MaxFloatWin)
    \/ set_window_geometry(1..MaxFloatWin)

FloatSpec == Init /\ [][FloatNext]_vars

(***************************************************************************)
(* The VerticalLayout on its own: any screen, any duplicate-free tile      *)
(* sequence, and the calls get_window_geometry (one window, known or not)  *)
(* and get_window_layout (every tile, as the TileManager asks for it).     *)
(***************************************************************************)
LayoutInit ==
    /\ InitWM({SCREEN})
    /\ l_screen \in LayoutScreens
    /\ l_tiles \in TileSequences
    /\ l_window = None
    /\ l_geometry = Result(NoGeometry, "-")
    /\ l_layout = << >>
    /\ l_swapped = [tiles |-> << >>, window |-> None, res |-> "-"]
    /\ l_gap = 0

get_window_geometry ==
    \E w \in 1..(MaxTiles + 1) :
        /\ l_window' = w
        /\ l_geometry' = VerticalLayout_get_window_geometry(w, l_screen, l_tiles)
        /\ UNCHANGED <<l_screen, l_tiles, l_layout, l_swapped, l_gap>>
        /\ UNCHANGED wm_vars

get_window_layout ==
    /\ l_layout' = TileManager_get_window_layout(
                       [tiles |-> l_tiles, originals |-> << >>, screen |-> l_screen])
    /\ l_window' = None
    /\ UNCHANGED <<l_screen, l_tiles, l_geometry, l_swapped, l_gap>>
    /\ UNCHANGED wm_vars

LayoutNext == get_window_geometry \/ get_window_layout

LayoutSpec == LayoutInit /\ [][LayoutNext]_vars

\* VerticalLayout::swap_with_master on its own: any duplicate-free tile
\* sequence, any window, known or not, call after call
SwapInit ==
    /\ InitWM({SCREEN})
    /\ l_screen = SCREEN
    /\ l_tiles \in TileSequences
    /\ l_window = None
    /\ l_geometry = Result(NoGeometry, "-")
    /\ l_layout = << >>
    /\ l_swapped = [tiles |-> << >>, window |-> None, res |-> "-"]
    /\ l_gap = 0

layout_swap_with_master ==
    \E w \in 1..(MaxTiles + 1) :
        /\ l_tiles' = VerticalLayout_swap_with_master(w, l_tiles).st
        /\ l_swapped' = [tiles |-> l_tiles, window |-> w,
                         res |-> VerticalLayout_swap_with_master(w, l_tiles).res]
        /\ UNCHANGED <<l_screen, l_window, l_geometry, l_layout, l_gap>>
        /\ UNCHANGED wm_vars

SwapNext == layout_swap_with_master

SwapSpec == SwapInit /\ [][SwapNext]_vars

(***************************************************************************)
(* The GapLayout on its own: any gap of GapSizes, a screen of GapScreens,  *)
(* any duplicate-free tile sequence, and the calls get_window_geometry,    *)
(* swap_with_master and swap_windows on any window, known or not.  The     *)
(* record of a call replaces the record of the call before it.             *)
(***************************************************************************)
GapSizes == 0..MaxGap \cup {TEST_GAP}

GapScreens ==
    {Screen(w, h) : w \in 0..MaxGapSide, h \in 0..MaxGapSide} \cup {SCREEN, SCREEN1, SCREEN2}

GapInit ==
    /\ InitWM({SCREEN})
    /\ l_screen \in GapScreens
    /\ l_tiles \in TileSequences
    /\ l_gap \in GapSizes
    /\ l_window = None
    /\ l_geometry = Result(NoGeometry, "-")
    /\ l_layout = << >>
    /\ l_swapped = [tiles |-> << >>, window |-> None, res |-> "-", dir |-> "-"]

gap_get_window_geometry ==
    \E w \in 1..(MaxTiles + 1) :
        /\ l_window' = w
        /\ l_geometry' = GapLayout_get_window_geometry([gap |-> l_gap], w, l_screen, l_tiles)
        /\ l_swapped' = [tiles |-> << >>, window |-> None, res |-> "-", dir |-> "-"]
        /\ UNCHANGED <<l_screen, l_tiles, l_layout, l_gap>>
        /\ UNCHANGED wm_vars

gap_swap_with_master ==
    \E w \in 1..(MaxTiles + 1) :
        /\ l_tiles' = GapLayout_swap_with_master([gap |-> l_gap], w, l_tiles).st
        /\ l_swapped' = [tiles |-> l_tiles, window |-> w, dir |-> "-",
                         res |-> GapLayout_swap_with_master([gap |-> l_gap], w, l_tiles).res]
        /\ l_window' = None
        /\ l_geometry' = Result(NoGeometry, "-")
        /\ UNCHANGED <<l_screen, l_layout, l_gap>>
        /\ UNCHANGED wm_vars

gap_swap_windows ==
    \E w \in 1..(MaxTiles + 1), dir \in Directions :
        /\ l_tiles' = GapLayout_swap_windows([gap |-> l_gap], w, dir, l_tiles)
        /\ l_swapped' = [tiles |-> l_tiles, window |-> w, dir |-> dir, res |-> "Ok"]
        /\ l_window' = None
        /\ l_geometry' = Result(NoGeometry, "-")
        /\ UNCHANGED <<l_screen, l_layout, l_gap>>
        /\ UNCHANGED wm_vars

GapNext == gap_get_window_geometry \/ gap_swap_with_master \/ gap_swap_windows

GapSpec == GapInit /\ [][GapNext]_vars

(***************************************************************************)
(* MultiWorkspaces<MinimiseWM>: every operation of the wrapper on the      *)
(* windows 1..MaxMultiWin, added tiled or floating with one geometry, on   *)
(* the screens of Screens.  switch_workspace is called with the indices    *)
(* 0..MaxWorkspaces + 1; the vector grows to MaxWorkspaces workspaces.     *)
(***************************************************************************)
MultiInfos ==
    {WindowWithInfo(w, SOME_GEOM_A, m, FALSE) : w \in 1..MaxMultiWin, m \in {"Tile", "Float"}}

MultiBecomes(new, op, arg, res) ==
    /\ multi_workspaces' = new
    /\ multi_last' = [op |-> op, arg |-> arg, res |-> res]
    /\ UNCHANGED <<focus_manager, minimise_manager, last>>
    /\ UNCHANGED layout_vars

MultiReturns(op, arg, r) == MultiBecomes(r.st, op, arg, r.res)

multi_add_window ==
    \E info \in MultiInfos :
        MultiReturns("add_window", info.window,
                     MultiWorkspaces_add_window(multi_workspaces, info))

multi_remove_window ==
    \E w \in 1..MaxMultiWin :
        MultiReturns("remove_window", w, MultiWorkspaces_remove_window(multi_workspaces, w))

multi_focus_window ==
    \E w \in 0..MaxMultiWin :
        MultiReturns("focus_window", w, MultiWorkspaces_focus_window(multi_workspaces, w))

multi_cycle_focus ==
    \E dir \in Directions :
        MultiBecomes(MultiWorkspaces_cycle_focus(multi_workspaces, dir),
                     "cycle_focus", dir, "Ok")

multi_resize_screen ==
    \E screen \in Screens :
        MultiBecomes(MultiWorkspaces_resize_screen(multi_workspaces, screen),
                     "resize_screen", None, "Ok")

multi_switch_workspace ==
    \E index \in 0..(MaxWorkspaces + 1) :
        /\ index = Len(multi_workspaces.workspaces)
               => Len(multi_workspaces.workspaces) < MaxWorkspaces
        /\ MultiReturns("switch_workspace", index,
                        MultiWorkspaces_switch_workspace(multi_workspaces, index))

multi_toggle_floating ==
    \E w \in 1..MaxMultiWin :
        MultiReturns("toggle_floating", w,
                     MultiWorkspaces_toggle_floating(multi_workspaces, w))

multi_set_window_geometry ==
    \E w \in 1..MaxMultiWin :
        MultiReturns("set_window_geometry", w,
                     MultiWorkspaces_set_window_geometry(multi_workspaces, w, SOME_GEOM_B))

multi_toggle_minimised ==
    \E w \in 1..MaxMultiWin :
        MultiReturns("toggle_minimised", w,
                     MultiWorkspaces_toggle_minimised(multi_workspaces, w))

multi_swap_with_master ==
    \E w \in 1..MaxMultiWin :
        MultiReturns("swap_with_master", w,
                     MultiWorkspaces_swap_with_master(multi_workspaces, w))

multi_swap_windows ==
    \E dir \in Directions :
        MultiBecomes(MultiWorkspaces_swap_windows(multi_workspaces, dir),
                     "swap_windows", dir, "Ok")

MultiNext ==
    \/ multi_add_window
    \/ multi_remove_window
    \/ multi_focus_window
    \/ multi_cycle_focus
    \/ multi_resize_screen
    \/ multi_switch_workspace
    \/ multi_toggle_floating
    \/ multi_set_window_geometry
    \/ multi_toggle_minimised
    \/ multi_swap_with_master
    \/ multi_swap_windows

MultiSpec == Init /\ [][MultiNext]_vars

(***************************************************************************)
(* Properties.                                                             *)
(***************************************************************************)
Tiled == SeqToSet(MinimiseManager_get_tiled_windows(minimise_manager))
Floating == SeqToSet(MinimiseWM_get_floating_windows(wm))
Minimised == SeqToSet(MinimiseWM_get_minimised_windows(wm))
Managed == SeqToSet(MinimiseWM_get_windows(wm))

\* C1: after any sequence of calls of MinimiseWM, failed ones included, the
\* tiled, the floating and the minimised windows are pairwise disjoint, and
\* their union is the set of windows the FocusManager reports in get_windows.
C1_Buckets ==
    /\ Tiled \cap Floating = {}
    /\ Tiled \cap Minimised = {}
    /\ Floating \cap Minimised = {}
    /\ Tiled \cup Floating \cup Minimised = Managed

\* a call failed in a state with a minimised and a floating window
C1_Witness ==
    /\ last.res # "Ok"
    /\ last.op \in {"toggle_minimised", "toggle_floating", "swap_with_master", "add_window"}
    /\ Minimised # {}
    /\ Floating # {}

\* C2: in every reachable state of MinimiseWM the focused window, if there
\* is one, is managed and is not in the minimised list.
C2_FocusedIsVisible ==
    MinimiseWM_get_focused_window(wm) # None =>
        /\ MinimiseWM_get_focused_window(wm) \in Managed
        /\ MinimiseWM_get_focused_window(wm) \notin Minimised

\* the rectangles share a point of positive area
Overlap(g, h) ==
    /\ g.x < h.x + h.width
    /\ h.x < g.x + g.width
    /\ g.y < h.y + h.height
    /\ h.y < g.y + g.height

Inside(g, screen) ==
    /\ 0 <= g.x
    /\ 0 <= g.y
    /\ g.x + g.width <= screen.width
    /\ g.y + g.height <= screen.height

RECURSIVE AreaSum(_)
AreaSum(layout) ==
    IF layout = << >>
    THEN 0
    ELSE Head(layout)[2].width * Head(layout)[2].height + AreaSum(Tail(layout))

\* C3: for every screen and every duplicate-free sequence of N >= 1 tiles, the
\* N geometries of the VerticalLayout overlap nowhere, lie inside the screen
\* and have areas that sum to width * height of the screen.
C3_Partition ==
    l_layout # << >> =>
        /\ Len(l_layout) = Len(l_tiles)
        /\ \A i \in 1..Len(l_layout) :
              /\ l_layout[i][1] = l_tiles[i]
              /\ l_layout[i][2] =
                     VerticalLayout_get_window_geometry(l_tiles[i], l_screen, l_tiles).st
              /\ Inside(l_layout[i][2], l_screen)
        /\ \A i, j \in 1..Len(l_layout) :
              i # j => ~Overlap(l_layout[i][2], l_layout[j][2])
        /\ AreaSum(l_layout) = l_screen.width * l_screen.height

\* four tiles on the screen of 301 x 401, whose sides do not divide evenly
C3_Witness ==
    /\ l_screen = SCREEN2
    /\ Len(l_tiles) = MaxTiles
    /\ Len(l_layout) = MaxTiles

\* C4: the master tile gets (0, 0, W if N = 1 else W div 2, H); the side tile
\* at 0-based position i gets x = W div 2, width = W - W div 2,
\* y = (i - 1) * step with step = H div (N - 1), and height step, but the last
\* one H - step * (N - 2); a window not in the sequence gets UnknownWindow.
C4_Formula ==
    l_window # None =>
        LET N == Len(l_tiles)
            W == l_screen.width
            H == l_screen.height
            i == position(l_tiles, l_window) - 1
            step == H \div (N - 1)
        IN  IF i = -1
            THEN l_geometry.res = "UnknownWindow"
            ELSE /\ l_geometry.res = "Ok"
                 /\ l_geometry.st =
                        IF i = 0
                        THEN Geometry(0, 0, IF N = 1 THEN W ELSE W \div 2, H)
                        ELSE Geometry(W \div 2, (i - 1) * step, W - W \div 2,
                                      IF i = N - 1 THEN H - step * (N - 2) ELSE step)

\* Scenario B: the last of four tiles on 301 x 401 is 135 high, not 133
C4_Witness ==
    /\ l_screen = SCREEN2
    /\ l_tiles = <<1, 2, 3, 4>>
    /\ l_window = 4
    /\ l_geometry = Result(Geometry(150, 266, 151, 135), "Ok")

\* the second of two consecutive calls: the call of last, once more
ToggleFloatingAgain == MinimiseWM_toggle_floating(wm, last.window)

ToggleMinimisedAgain == MinimiseWM_toggle_minimised(wm, last.window)

\* C5: for a managed window that is not minimised, two consecutive
\* toggle_floating calls both succeed and leave it in the mode it had; a
\* window that was floating has exactly the geometry it had before.
C5_ToggleFloatingTwice ==
    (last.op = "toggle_floating" /\ last.was \in {"Tile", "Float"}) =>
        /\ last.res = "Ok"
        /\ BucketOf(minimise_manager, last.window) \in {"Tile", "Float"} \ {last.was}
        /\ ToggleFloatingAgain.res = "Ok"
        /\ BucketOf(ToggleFloatingAgain.st.minimise_manager, last.window) = last.was
        /\ last.was = "Float" =>
              /\ MinimiseWM_get_window_info(ToggleFloatingAgain.st, last.window).res = "Ok"
              /\ MinimiseWM_get_window_info(ToggleFloatingAgain.st, last.window).st.geometry
                     = last.info.geometry

\* Scenario D: a float at SOME_GEOM_A is a tile of another geometry after the
\* first call and a float at SOME_GEOM_A again after the second
C5_Witness ==
    /\ last.op = "toggle_floating"
    /\ last.was = "Float"
    /\ last.info.geometry = SOME_GEOM_A
    /\ MinimiseWM_get_window_info(wm, last.window).st.geometry # SOME_GEOM_A
    /\ MinimiseWM_get_window_info(ToggleFloatingAgain.st, last.window).st
           = WindowWithInfo(last.window, SOME_GEOM_A, "Float", FALSE)

\* C6, as stated: two consecutive toggle_minimised calls on a managed window
\* that is not minimised restore its mode and the geometry get_window_info
\* reports, exactly.
C6_AsStated ==
    (last.op = "toggle_minimised" /\ last.was \in {"Tile", "Float"}) =>
        /\ BucketOf(ToggleMinimisedAgain.st.minimise_manager, last.window) = last.was
        /\ MinimiseWM_get_window_info(ToggleMinimisedAgain.st, last.window).st.geometry
               = last.info.geometry

\* C6, amended: both calls succeed and the mode is restored; a window that
\* was floating has exactly the geometry it had, and a window that was tiled
\* comes back as the last tile, with the geometry of the last tile.
C6_ToggleMinimisedTwice ==
    (last.op = "toggle_minimised" /\ last.was \in {"Tile", "Float"}) =>
        /\ last.res = "Ok"
        /\ BucketOf(minimise_manager, last.window) = "Minimised"
        /\ ToggleMinimisedAgain.res = "Ok"
        /\ BucketOf(ToggleMinimisedAgain.st.minimise_manager, last.window) = last.was
        /\ last.was = "Float" =>
              MinimiseWM_get_window_info(ToggleMinimisedAgain.st, last.window).st
                  = last.info
        /\ last.was = "Tile" =>
              /\ MinimiseManager_get_tiled_windows(ToggleMinimisedAgain.st.minimise_manager)
                     = Append(tiles, last.window)
              /\ MinimiseWM_get_window_info(ToggleMinimisedAgain.st, last.window).st.geometry
                     = VerticalLayout_get_window_geometry(
                           last.window, MinimiseWM_get_screen(wm),
                           Append(tiles, last.window)).st

\* the master of two tiles was minimised: it comes back as the side tile
C6_Witness ==
    /\ last.op = "toggle_minimised"
    /\ last.was = "Tile"
    /\ last.info.geometry = Geometry(0, 0, 400, 600)
    /\ Len(tiles) = 1
    /\ MinimiseWM_get_window_info(ToggleMinimisedAgain.st, last.window).st.geometry
           = Geometry(400, 0, 400, 600)

\* C7: in every reachable state each minimised window is absent from
\* get_window_layout().windows and present in get_windows(), and the layout
\* has as many entries as there are managed windows that are not minimised.
C7_MinimisedHidden ==
    /\ \A w \in Minimised :
          /\ \A i \in 1..Len(MinimiseWM_get_window_layout(wm).windows) :
                MinimiseWM_get_window_layout(wm).windows[i][1] # w
          /\ is_managed(MinimiseWM_get_windows(wm), w)
    /\ Len(MinimiseWM_get_window_layout(wm).windows)
           = Len(MinimiseWM_get_windows(wm)) - Len(MinimiseWM_get_minimised_windows(wm))

\* one window was just minimised and the other one is all of the layout
C7_Witness ==
    /\ last.op = "toggle_minimised"
    /\ last.res = "Ok"
    /\ Minimised = {last.window}
    /\ Len(MinimiseWM_get_window_layout(wm).windows) = 1
    /\ MinimiseWM_get_window_layout(wm).windows[1][1] # last.window

\* C8: a successful add_window(w) makes w the focused window, and the window
\* that was focused before becomes the back entry of the focus sequence: the
\* window that gets the focus if w is removed next.
C8_AddFocuses ==
    (last.op = "add_window" /\ last.res = "Ok") =>
        /\ MinimiseWM_get_focused_window(wm) = last.window
        /\ last.pf # None =>
              /\ Len(focus_manager.windows) > 0
              /\ focus_manager.windows[Len(focus_manager.windows)] = last.pf
              /\ MinimiseWM_remove_window(wm, last.window).res = "Ok"
              /\ MinimiseWM_get_focused_window(
                     MinimiseWM_remove_window(wm, last.window).st) = last.pf

\* a third window was added: two windows wait in the focus sequence
C8_Witness ==
    /\ last.op = "add_window"
    /\ last.res = "Ok"
    /\ last.pf # None
    /\ Len(focus_manager.windows) = 2

\* C9: add_window of a managed window, whatever its bucket, returns the
\* AlReadyManagedWindow error and changes neither the focused window, nor
\* the focus order, nor the tiles, the floats or the minimised windows.
C9_AddManaged ==
    [][(/\ last'.op = "add_window"
        /\ is_managed(FocusManager_get_windows(focus_manager), last'.window)) =>
           /\ last'.res = "AlReadyManagedWindow"
           /\ focus_manager' = focus_manager
           /\ minimise_manager' = minimise_manager]_vars

\* the window added again is minimised, and another one has the focus
C9_Witness ==
    /\ last.op = "add_window"
    /\ last.res = "AlReadyManagedWindow"
    /\ last.was = "Minimised"
    /\ last.pf \notin {None, last.window}

\* the sequence without the window
without(seq, window) == SelectSeq(seq, LAMBDA w : w # window)

\* C10: remove_window of a managed window: when it has the focus, the back
\* entry of the focus sequence leaves the sequence and gets the focus (nobody
\* when the sequence is empty); when it has not, the focused window stays and
\* only the removed window leaves the sequence.
C10_RemoveFocus ==
    [][(/\ last'.op = "remove_window"
        /\ is_managed(FocusManager_get_windows(focus_manager), last'.window)) =>
           IF focus_manager.focused_window = last'.window
           THEN IF focus_manager.windows = << >>
                THEN focus_manager' = [windows |-> << >>, focused_window |-> None]
                ELSE /\ focus_manager'.focused_window
                            = focus_manager.windows[Len(focus_manager.windows)]
                     /\ focus_manager'.windows
                            = SubSeq(focus_manager.windows, 1, Len(focus_manager.windows) - 1)
           ELSE /\ focus_manager'.focused_window = focus_manager.focused_window
                /\ focus_manager'.windows = without(focus_manager.windows, last'.window)]_vars

\* the focused one of three windows was removed, the back entry took over
C10_Witness ==
    /\ last.op = "remove_window"
    /\ last.res = "Ok"
    /\ last.pf = last.window
    /\ Len(focus_manager.windows) = 1
    /\ focus_manager.focused_window # None

\* C11: remove_window of a window that is not managed returns UnknownWindow
\* and changes nothing: the focused window, the focus sequence, the tiles and
\* their original infos, the floating windows and the minimised windows are
\* what they were.
C11_RemoveUnknown ==
    [][(/\ last'.op = "remove_window"
        /\ ~is_managed(MinimiseWM_get_windows(wm), last'.window)) =>
           /\ last'.res = "UnknownWindow"
           /\ focus_manager' = focus_manager
           /\ minimise_manager' = minimise_manager]_vars

\* an unknown window was removed while another one was managed and focused
C11_Witness ==
    /\ last.op = "remove_window"
    /\ last.was = "Unmanaged"
    /\ last.res = "UnknownWindow"
    /\ last.pf # None
    /\ focus_manager.focused_window = last.pf
    /\ Managed # {}

\* no structure of the window manager holds the window
Purged(window) ==
    /\ ~contains(focus_manager.windows, window)
    /\ focus_manager.focused_window # window
    /\ ~contains(tiles, window)
    /\ window \notin DOMAIN originals
    /\ info_position(floaters, window) = 0
    /\ info_position(minis, window) = 0

\* add_window of the info succeeds, focuses the window and stores the info:
\* a floating window reports it as it is, a tile is the last tile, reports the
\* geometry of its slot and keeps the info as its original info
AddsAsNew(info) ==
    LET added == MinimiseWM_add_window(wm, info)
        reported == MinimiseWM_get_window_info(added.st, info.window)
        tm == added.st.minimise_manager.layout_manager.tile_manager
    IN  /\ added.res = "Ok"
        /\ MinimiseWM_get_focused_window(added.st) = info.window
        /\ BucketOf(added.st.minimise_manager, info.window) = info.float_or_tile
        /\ reported.res = "Ok"
        /\ IF info.float_or_tile = "Float"
           THEN reported.st = info
           ELSE /\ tm.tiles = Append(tiles, info.window)
                /\ reported.st = WindowWithInfo(
                       info.window, TileManager_get_window_geometry(tm, info.window).st,
                       "Tile", FALSE)
                /\ TileManager_get_original_window_info(tm, info.window) = Result(info, "Ok")

\* C12: after a successful remove_window(w), w is not managed; and a window
\* that is not managed is in none of the focus sequence, the focus slot, the
\* tiles, the original infos, the floating windows and the minimised windows,
\* and add_window of any info for it succeeds and stores that info, whatever
\* the window was before.
C12_RemovePurges ==
    /\ (last.op = "remove_window" /\ last.res = "Ok") => last.window \notin Managed
    /\ \A info \in Infos :
           info.window \notin Managed => Purged(info.window) /\ AddsAsNew(info)

\* a floating window with the geometry SOME_GEOM_A was removed while another
\* window stays
C12_Witness ==
    /\ last.op = "remove_window"
    /\ last.res = "Ok"
    /\ last.was = "Float"
    /\ last.info.geometry = SOME_GEOM_A
    /\ Managed # {}

\* C13: focus_window(Some(w)) of a managed window w returns Ok and w has the
\* focus afterwards; the window that had the focus before, if it is another
\* one, is the back entry of the focus sequence afterwards.  focus_window(None)
\* returns Ok, nobody has the focus afterwards, and the set of managed windows
\* is what it was.
C13_Focus ==
    [][last'.op = "focus_window" =>
          IF last'.window = None
          THEN /\ last'.res = "Ok"
               /\ focus_manager'.focused_window = None
               /\ SeqToSet(FocusManager_get_windows(focus_manager')) = Managed
          ELSE is_managed(MinimiseWM_get_windows(wm), last'.window) =>
                  /\ last'.res = "Ok"
                  /\ focus_manager'.focused_window = last'.window
                  /\ focus_manager.focused_window \notin {None, last'.window} =>
                         /\ focus_manager'.windows # << >>
                         /\ focus_manager'.windows[Len(focus_manager'.windows)]
                                = focus_manager.focused_window]_vars

\* a minimised window got the focus while another one of three had it
C13_Witness ==
    /\ last.op = "focus_window"
    /\ last.res = "Ok"
    /\ last.window # None
    /\ last.was = "Minimised"
    /\ last.pf \notin {None, last.window}
    /\ Len(focus_manager.windows) = 2
    /\ focus_manager.windows[2] = last.pf
    /\ focus_manager.focused_window = last.window

\* C14: cycle_focus, Next or Prev, of a manager without windows changes
\* nothing and nobody has the focus; of a manager with exactly one window it
\* leaves that window with the focus, whether it had the focus before or not.
C14_CycleNoneAndOne ==
    [][last'.op = "cycle_focus" =>
          /\ Managed = {} =>
                 /\ focus_manager' = focus_manager
                 /\ minimise_manager' = minimise_manager
                 /\ MinimiseWM_get_focused_window(wm') = None
          /\ Cardinality(Managed) = 1 =>
                 /\ Managed' = Managed
                 /\ MinimiseWM_get_focused_window(wm') \in Managed]_vars

\* the only window, which did not have the focus, got it by cycle_focus
C14_Witness ==
    /\ last.op = "cycle_focus"
    /\ last.pf = None
    /\ Cardinality(Managed) = 1
    /\ MinimiseWM_get_focused_window(wm) \in Managed

\* the other direction
opposite(dir) == IF dir = "Next" THEN "Prev" ELSE "Next"

\* C15: when a window has the focus, cycle_focus in one direction followed
\* by cycle_focus in the other direction gives the focus back to the same
\* window and leaves the focus sequence in the same order, for Prev then Next
\* and for Next then Prev.
C15_CycleBackAndForth ==
    [][(last'.op = "cycle_focus" /\ focus_manager.focused_window # None) =>
          MinimiseWM_cycle_focus(wm', opposite(last'.dir)).focus_manager
              = focus_manager]_vars

\* cycle_focus moved the focus from one of three windows to another one
C15_Witness ==
    /\ last.op = "cycle_focus"
    /\ last.pf # None
    /\ Len(focus_manager.windows) = 2
    /\ focus_manager.focused_window \notin {None, last.pf}

\* C16: toggle_minimised of a visible (tiled or floating) window that has the
\* focus returns Ok, leaves nobody with the focus, whatever other windows
\* there are, and the window is among the minimised windows afterwards.
C16_MinimiseFocused ==
    (/\ last.op = "toggle_minimised"
     /\ last.was \in {"Tile", "Float"}
     /\ last.pf = last.window) =>
        /\ last.res = "Ok"
        /\ MinimiseWM_get_focused_window(wm) = None
        /\ last.window \in Minimised
        /\ last.window \notin Tiled \cup Floating

\* the focused one of two windows was minimised
C16_Witness ==
    /\ last.op = "toggle_minimised"
    /\ last.was \in {"Tile", "Float"}
    /\ last.pf = last.window
    /\ Cardinality(Managed) = 2
    /\ MinimiseWM_get_focused_window(wm) = None
    /\ last.window \in Minimised

\* C17: after a focus_window(Some(w)) that returns Ok, and after a
\* cycle_focus that leaves w with the focus, w is not minimised; when it was
\* minimised before the call, it is in the layout afterwards, tiled or
\* floating as the info it was minimised with says.
C17_FocusRestores ==
    [][(/\ \/ last'.op = "focus_window" /\ last'.window # None /\ last'.res = "Ok"
           \/ last'.op = "cycle_focus"
        /\ focus_manager'.focused_window # None) =>
           /\ focus_manager'.focused_window \notin Minimised'
           /\ focus_manager'.focused_window \in Minimised =>
                  BucketOf(minimise_manager', focus_manager'.focused_window)
                      = MinimiseAssistantManager_get_window_info(
                            minimise_manager.minimise_assistant_manager,
                            focus_manager'.focused_window).st.float_or_tile]_vars

\* a window that was minimised as a floating window got the focus and floats
\* again, beside another window
C17_Witness ==
    /\ last.op = "focus_window"
    /\ last.res = "Ok"
    /\ last.was = "Minimised"
    /\ last.info.float_or_tile = "Float"
    /\ last.window \in Floating
    /\ MinimiseWM_get_focused_window(wm) = last.window
    /\ Cardinality(Managed) = 2

\* the windows of a layout, in its order
layout_windows(layout) == [i \in 1..Len(layout) |-> layout[i][1]]

\* C18: in every reachable state the windows of get_window_layout() are the
\* tiled windows in the order of the tile sequence followed by the floating
\* windows in the order of the float list: no floating window comes before a
\* tiled one, however the windows were added, focused and toggled.
C18_TilesBelowFloats ==
    LET windows == layout_windows(MinimiseWM_get_window_layout(wm).windows)
    IN  /\ windows = tiles \o FloatManager_get_windows(
                                  minimise_manager.layout_manager.float_manager)
        /\ \A i, j \in 1..Len(windows) :
               (/\ FloatOrTileManager_is_floating(minimise_manager.layout_manager, windows[i])
                /\ FloatOrTileManager_is_tiled(minimise_manager.layout_manager, windows[j]))
                   => j < i

\* a floating window was made a tile: it is the first entry of the layout,
\* below the two windows that float
C18_Witness ==
    /\ last.op = "toggle_floating"
    /\ last.res = "Ok"
    /\ last.was = "Float"
    /\ Len(tiles) = 1
    /\ Len(floaters) = 2
    /\ layout_windows(MinimiseWM_get_window_layout(wm).windows)[1] = last.window

\* C19: when a focus_window(Some(w)) that returns Ok, or a cycle_focus, leaves
\* a floating window w with the focus, w is the last entry of
\* get_window_layout().windows, and the entries of all other windows, window
\* and geometry, are the same and in the same order as before the call.
C19_FocusedFloatOnTop ==
    [][(/\ \/ last'.op = "focus_window" /\ last'.window # None /\ last'.res = "Ok"
           \/ last'.op = "cycle_focus"
        /\ focus_manager'.focused_window # None
        /\ focus_manager'.focused_window \in Floating') =>
           LET before == MinimiseWM_get_window_layout(wm).windows
               after == MinimiseWM_get_window_layout(wm').windows
               others(layout) ==
                   SelectSeq(layout, LAMBDA e : e[1] # focus_manager'.focused_window)
           IN  /\ after # << >>
               /\ after[Len(after)][1] = focus_manager'.focused_window
               /\ others(after) = others(before)]_vars

\* the focus went from one floating window to the other one, above a tile
C19_Witness ==
    /\ last.op \in {"focus_window", "cycle_focus"}
    /\ last.res = "Ok"
    /\ Len(tiles) = 1
    /\ Len(floaters) = 2
    /\ last.pf = floaters[1].window
    /\ MinimiseWM_get_focused_window(wm) = floaters[2].window

\* C20 as the specification states it: swap_with_master(w, tiles) of a window
\* of the sequence gives w followed by the other tiles in the order they had.
C20_AsStated ==
    l_swapped.window # None =>
        IF contains(l_swapped.tiles, l_swapped.window)
        THEN /\ l_swapped.res = "Ok"
             /\ l_tiles = <<l_swapped.window>> \o without(l_swapped.tiles, l_swapped.window)
        ELSE /\ l_swapped.res = "UnknownWindow"
             /\ l_tiles = l_swapped.tiles

\* C20: swap_with_master(w, tiles) of a window at position i of the sequence
\* exchanges w and the master: w is at the front, the former master is at
\* position i, every other tile is where it was (which is w followed by the
\* others in their order only when w is the master or the tile next to it);
\* of a window that is not in the sequence it returns UnknownWindow and leaves
\* the sequence as it is.
C20_SwapWithMaster ==
    l_swapped.window # None =>
        IF contains(l_swapped.tiles, l_swapped.window)
        THEN /\ l_swapped.res = "Ok"
             /\ Len(l_tiles) = Len(l_swapped.tiles)
             /\ \A k \in 1..Len(l_tiles) :
                    l_tiles[k] = IF k = 1 THEN l_swapped.window
                                 ELSE IF l_swapped.tiles[k] = l_swapped.window
                                      THEN l_swapped.tiles[1]
                                      ELSE l_swapped.tiles[k]
             /\ position(l_swapped.tiles, l_swapped.window) <= 2 =>
                    l_tiles = <<l_swapped.window>>
                                  \o without(l_swapped.tiles, l_swapped.window)
        ELSE /\ l_swapped.res = "UnknownWindow"
             /\ l_tiles = l_swapped.tiles

\* the third of four tiles was swapped with the master: the second tile
\* stays second, the former master is third
C20_Witness ==
    /\ l_swapped = [tiles |-> <<1, 2, 3, 4>>, window |-> 3, res |-> "Ok"]
    /\ l_tiles = <<3, 2, 1, 4>>

\* C21: a swap_with_master(w) that returns Ok while there is at least one
\* tile leaves w as the master window and as the focused window, whether w
\* was tiled or floating; when w was the master, the tiles keep their order.
C21_SwapFocusesMaster ==
    [][(/\ last'.op = "swap_with_master"
        /\ last'.res = "Ok"
        /\ tiles # << >>) =>
           /\ MinimiseManager_get_master_window(minimise_manager') = last'.window
           /\ MinimiseWM_get_focused_window(wm') = last'.window
           /\ VerticalLayout_get_master_window(tiles) = last'.window => tiles' = tiles]_vars

\* C22: swap_with_master(w) of a floating window w while there is a tile
\* returns Ok; afterwards w is a tile and the master, the previous master
\* floats with the geometry of the info it entered the tile sequence with,
\* so exactly one of the two floats; every other window is tiled or floating
\* as before, and the other tiles follow w in the order they had.
C22_FloatStealsMaster ==
    [][(/\ last'.op = "swap_with_master"
        /\ last'.window \in Floating
        /\ tiles # << >>) =>
           /\ last'.res = "Ok"
           /\ last'.window \in Tiled'
           /\ MinimiseManager_get_master_window(minimise_manager') = last'.window
           /\ Head(tiles) \in Floating'
           /\ MinimiseWM_get_window_info(wm', Head(tiles))
                  = Result(WindowWithInfo(Head(tiles), originals[Head(tiles)].geometry,
                                          "Float", FALSE), "Ok")
           /\ tiles' = <<last'.window>> \o Tail(tiles)
           /\ Floating' = (Floating \ {last'.window}) \cup {Head(tiles)}
           /\ Managed' = Managed]_vars

\* a floating window took the master slot of two tiles: the other tile is
\* still the second one and the previous master floats
C22_Witness ==
    /\ last.op = "swap_with_master"
    /\ last.res = "Ok"
    /\ last.was = "Float"
    /\ Len(tiles) = 2
    /\ tiles[1] = last.window
    /\ Len(floaters) = 1
    /\ Cardinality(Managed) = 3

\* C23: swap_with_master(w) of a floating window w while there is no tile
\* returns Ok and changes no mode and no geometry: there is still no master,
\* w still floats, and get_window_info of w and of every other window is what
\* it was.
C23_SwapWithoutTiles ==
    [][(/\ last'.op = "swap_with_master"
        /\ last'.window \in Floating
        /\ tiles = << >>) =>
           /\ last'.res = "Ok"
           /\ MinimiseManager_get_master_window(minimise_manager') = None
           /\ last'.window \in Floating'
           /\ Managed' = Managed
           /\ \A w \in Managed :
                  MinimiseWM_get_window_info(wm', w) = MinimiseWM_get_window_info(wm, w)]_vars

\* swap_with_master of one of two floating windows with different geometries
\* and no tile
C23_Witness ==
    /\ last.op = "swap_with_master"
    /\ last.res = "Ok"
    /\ last.was = "Float"
    /\ tiles = << >>
    /\ Len(floaters) = 2
    /\ floaters[1].geometry # floaters[2].geometry
    /\ floaters[2].window = last.window

\* C24: swap_windows(dir) with the focused window tiled at index i of n tiles
\* exchanges it with the tile at index (i+1) mod n for Next and (i-1) mod n for
\* Prev, wrapping around both ends; every other tile keeps its position, and
\* the focused window and the set of tiles are unchanged
C24_SwapWindowsNeighbour ==
    [][(last'.op = "swap_windows" /\ last'.pf \in Tiled) =>
           LET n == Len(tiles)
               i == position(tiles, last'.pf) - 1
               j == IF last'.dir = "Next" THEN (i + 1) % n ELSE (i + n - 1) % n
           IN  /\ Len(tiles') = n
               /\ tiles'[j + 1] = tiles[i + 1]
               /\ tiles'[i + 1] = tiles[j + 1]
               /\ \A k \in 1..n : k \notin {i + 1, j + 1} => tiles'[k] = tiles[k]
               /\ MinimiseWM_get_focused_window(wm') = last'.pf
               /\ Tiled' = Tiled]_vars

\* the focused window was the master of three tiles and swap_windows(Prev)
\* wrapped it around to the last position
C24_Witness ==
    /\ last.op = "swap_windows"
    /\ last.dir = "Prev"
    /\ Len(tiles) = 3
    /\ last.pf = tiles[3]
    /\ MinimiseWM_get_focused_window(wm) = tiles[3]

\* C25: swap_windows(Next) and swap_windows(Prev) leave get_window_layout()
\* (order, geometries and focused window) unchanged whenever no window is
\* focused or the focused window is floating
C25_SwapWindowsWithoutFocusedTile ==
    [][(/\ last'.op = "swap_windows"
        /\ \/ last'.pf = None
           \/ last'.pf \in Floating) =>
           MinimiseWM_get_window_layout(wm') = MinimiseWM_get_window_layout(wm)]_vars

\* swap_windows was called with two tiles on the screen and a floating window
\* focused
C25_Witness ==
    /\ last.op = "swap_windows"
    /\ last.pf \in Floating
    /\ Len(tiles) = 2
    /\ MinimiseWM_get_focused_window(wm) = last.pf

\* C26: set_window_geometry(w, g) on a visible floating window returns Ok and
\* get_window_info(w).geometry becomes g; on a managed tile it returns
\* NotFloatingWindow; on a window that is not managed it returns UnknownWindow;
\* in both error cases no geometry, order or focus changes
C26_SetWindowGeometry ==
    \A w \in 1..MaxFloatWin, g \in Geometries :
        LET r == MinimiseWM_set_window_geometry(wm, w, g)
        IN  /\ w \in Floating =>
                  /\ r.res = "Ok"
                  /\ MinimiseWM_get_window_info(r.st, w).res = "Ok"
                  /\ MinimiseWM_get_window_info(r.st, w).st.geometry = g
            /\ w \in Tiled =>
                  /\ r.res = "NotFloatingWindow"
                  /\ r.st = wm
            /\ w \notin Managed =>
                  /\ r.res = "UnknownWindow"
                  /\ r.st = wm

\* a floating window was given a geometry other than the one it had, while a
\* tile and an unmanaged window id were there to be refused
C26_Witness ==
    /\ last.op = "set_window_geometry"
    /\ last.res = "Ok"
    /\ last.window \in Floating
    /\ MinimiseWM_get_window_info(wm, last.window).st.geometry # last.info.geometry
    /\ Tiled # {}
    /\ \E w \in 1..MaxFloatWin : w \notin Managed

\* C27: a successful toggle_floating(w) leaves w as the focused window,
\* whichever window (if any) was focused before and whether w was tiled or
\* floating
C27_ToggleFloatingFocuses ==
    [][(last'.op = "toggle_floating" /\ last'.res = "Ok") =>
           MinimiseWM_get_focused_window(wm') = last'.window]_vars

\* a tile was made floating while another window had the focus
C27_Witness ==
    /\ last.op = "toggle_floating"
    /\ last.res = "Ok"
    /\ last.was = "Tile"
    /\ last.pf \notin {None, last.window}
    /\ last.window \in Floating
    /\ MinimiseWM_get_focused_window(wm) = last.window

\* C28: toggle_floating(w) on a tiled window w makes w floating with the
\* geometry it was given by add_window or last had while floating, never with
\* a geometry computed by the tiling layout: the geometry it floats with is one
\* of Geometries, the only geometries add_window and set_window_geometry are
\* called with, none of which the layout computes on SCREEN
C28_FloatsWithPreTilingGeometry ==
    [][(last'.op = "toggle_floating" /\ last'.res = "Ok" /\ last'.was = "Tile") =>
           /\ last'.window \in Floating'
           /\ MinimiseWM_get_window_info(wm', last'.window).st.geometry \in Geometries]_vars

\* C29: get_minimised_windows() lists the minimised windows in the order in
\* which they were minimised, oldest first: minimising a window appends it,
\* un-minimising a window with toggle_minimised removes only that window, and
\* no step changes the relative order of the windows that stay minimised
C29_MinimisedOrder ==
    [][LET before == MinimiseWM_get_minimised_windows(wm)
           after == MinimiseWM_get_minimised_windows(wm')
       IN  IF last'.op = "toggle_minimised" /\ last'.res = "Ok"
           THEN IF last'.was = "Minimised"
                THEN after = without(before, last'.window)
                ELSE after = Append(before, last'.window)
           ELSE after = SelectSeq(before, LAMBDA w : contains(after, w))]_vars

\* three windows were minimised and window 2 was restored with
\* toggle_minimised: the other two are listed, the older one first
C29_Witness ==
    /\ last.op = "toggle_minimised"
    /\ last.res = "Ok"
    /\ last.was = "Minimised"
    /\ last.window = 2
    /\ MinimiseWM_get_minimised_windows(wm) = <<3, 1>>
    /\ Managed = 1..MaxOrderWin

\* C30: GapLayout<VerticalLayout> with gap g returns, for every window, screen
\* and tile sequence, the geometry (x, y, w, h) of the VerticalLayout as
\* (x+g, y+g, max(0, w-2g), max(0, h-2g)), and its error when it has one; with
\* g = 0 it returns exactly the inner geometry; swap_with_master and
\* swap_windows leave the tile order the VerticalLayout leaves
C30_GapGeometry ==
    /\ l_geometry.res # "-" =>
           LET inner == VerticalLayout_get_window_geometry(l_window, l_screen, l_tiles)
               g == l_gap
           IN  /\ l_geometry.res = inner.res
               /\ inner.res = "Ok" =>
                      /\ l_geometry.st.x = inner.st.x + g
                      /\ l_geometry.st.y = inner.st.y + g
                      /\ l_geometry.st.width =
                             (IF inner.st.width - 2 * g > 0 THEN inner.st.width - 2 * g ELSE 0)
                      /\ l_geometry.st.height =
                             (IF inner.st.height - 2 * g > 0 THEN inner.st.height - 2 * g ELSE 0)
               /\ g = 0 => l_geometry = inner
    /\ (l_swapped.res # "-" /\ l_swapped.dir = "-") =>
           /\ l_tiles = VerticalLayout_swap_with_master(l_swapped.window, l_swapped.tiles).st
           /\ l_swapped.res =
                  VerticalLayout_swap_with_master(l_swapped.window, l_swapped.tiles).res
    /\ (l_swapped.res # "-" /\ l_swapped.dir # "-") =>
           l_tiles = VerticalLayout_swap_windows(l_swapped.window, l_swapped.dir, l_swapped.tiles)

\* the last of four tiles on the 301 x 401 screen with gap 5, as the test
\* expects it
C30_Witness ==
    /\ l_gap = TEST_GAP
    /\ l_screen = SCREEN2
    /\ l_tiles = <<1, 2, 3, 4>>
    /\ l_window = 4
    /\ l_geometry = Result(Geometry(155, 271, 141, 125), "Ok")

\* C31: in every reachable state get_window_info(w) returns Ok for every
\* window in get_windows(), the minimised ones included, and an error for
\* every window id that is not in get_windows()
C31_InfoIffManaged ==
    \A w \in 1..(MaxWin + 1) :
        /\ w \in Managed => MinimiseWM_get_window_info(wm, w).res = "Ok"
        /\ w \notin Managed => MinimiseWM_get_window_info(wm, w).res # "Ok"

\* a tile and a minimised window are managed and answer with their info, a
\* third id is not managed and is refused
C31_Witness ==
    /\ Tiled # {}
    /\ Minimised # {}
    /\ \A w \in Tiled \cup Minimised :
           /\ MinimiseWM_get_window_info(wm, w).res = "Ok"
           /\ MinimiseWM_get_window_info(wm, w).st.window = w
    /\ \E w \in 1..(MaxWin + 1) :
           /\ w \notin Managed
           /\ MinimiseWM_get_window_info(wm, w).res = "UnknownWindow"

\* C32: toggle_floating(w) on a floating window w places w at the last
\* position of the tile sequence, after all existing tiles, whatever tile
\* position w had earlier; the relative order of the other tiles is unchanged
C32_ToggledTileIsLast ==
    [][(last'.op = "toggle_floating" /\ last'.res = "Ok" /\ last'.was = "Float") =>
           tiles' = Append(tiles, last'.window)]_vars

\* the floating window 1 was made a tile while 2 and 3 were tiles: it is the
\* last tile, behind them
C32_Witness ==
    /\ last.op = "toggle_floating"
    /\ last.res = "Ok"
    /\ last.was = "Float"
    /\ last.window = 1
    /\ tiles = <<2, 3, 1>>

\* C33: the geometry reported for a window that stays floating (visible or
\* minimised) changes only through a successful set_window_geometry on that
\* window: no other call, on it or on another window, resize_screen and its
\* own minimise/un-minimise round trip included, changes it
C33_FloatGeometryFrame ==
    [][\A w \in Windows :
           LET before == MinimiseWM_get_window_info(wm, w)
               after == MinimiseWM_get_window_info(wm', w)
           IN  (/\ before.res = "Ok"
                /\ after.res = "Ok"
                /\ before.st.float_or_tile = "Float"
                /\ after.st.float_or_tile = "Float"
                /\ after.st.geometry # before.st.geometry) =>
                   /\ last'.op = "set_window_geometry"
                   /\ last'.window = w
                   /\ last'.res = "Ok"]_vars

\* the screen was resized to 301 x 401 while a window floated beside a tile:
\* the float reports the geometry it was given
C33_Witness ==
    /\ last.op = "resize_screen"
    /\ MinimiseWM_get_screen(wm) = SCREEN2
    /\ Tiled # {}
    /\ \E w \in Floating : MinimiseWM_get_window_info(wm, w).st.geometry = SOME_GEOM_A

\* C34: focus_window(Some(w)) with a window id w that is not managed returns
\* UnknownWindow and leaves the state unchanged: the window that was focused
\* before the call is still the focused window afterwards
C34_FocusUnknownKeepsFocus ==
    [][(last'.op = "focus_window" /\ last'.window # None /\ last'.window \notin Managed) =>
           /\ last'.res = "UnknownWindow"
           /\ MinimiseWM_get_focused_window(wm') = MinimiseWM_get_focused_window(wm)]_vars

\* C35: toggle_floating(w) with a window id w that is not managed returns an
\* error and leaves the focused window, the tile sequence, the float list and
\* the minimised list unchanged
C35_ToggleUnknownChangesNothing ==
    [][(last'.op = "toggle_floating" /\ last'.window \notin Managed) =>
           /\ last'.res # "Ok"
           /\ MinimiseWM_get_focused_window(wm') = MinimiseWM_get_focused_window(wm)
           /\ tiles' = tiles
           /\ floaters' = floaters
           /\ minis' = minis]_vars

\* C36: in MinimiseWM set_window_geometry(w, g) returns UnknownWindow only
\* when w is not in get_windows(); for a managed window, one that was floating
\* and is minimised included, it never returns UnknownWindow
C36_UnknownOnlyWhenUnmanaged ==
    \A w \in 1..(MaxWin + 1), g \in Geometries :
        MinimiseWM_set_window_geometry(wm, w, g).res = "UnknownWindow" => w \notin Managed

\* C37: in every reachable state of FloatWM in which the focused window is
\* floating, that window is the last (topmost) entry of
\* get_window_layout().windows
C37_FocusedFloatOnTop ==
    MinimiseWM_get_focused_window(wm) \in Floating =>
        LET windows == MinimiseWM_get_window_layout(wm).windows
        IN  windows[Len(windows)][1] = MinimiseWM_get_focused_window(wm)

\* C38: after any sequence of add_window, remove_window, focus_window and
\* cycle_focus calls, failing ones included, the sequence of non-focused
\* windows has no duplicates and does not contain the focused window, so
\* get_windows() lists every managed window exactly once
C38_FocusSequenceDistinct ==
    /\ \A i, j \in 1..Len(focus_manager.windows) :
           i # j => focus_manager.windows[i] # focus_manager.windows[j]
    /\ focus_manager.focused_window # None =>
           ~contains(focus_manager.windows, focus_manager.focused_window)
    /\ Len(FocusManager_get_windows(focus_manager))
           = Cardinality(SeqToSet(FocusManager_get_windows(focus_manager)))

\* three windows are managed, one of them focused, and the last call failed
C38_Witness ==
    /\ last.res # "Ok"
    /\ Len(focus_manager.windows) = 2
    /\ focus_manager.focused_window # None
    /\ Len(FocusManager_get_windows(focus_manager)) = 3

\* C39: no reachable call of swap_with_master hits the None case of the unwrap
\* on get_master_window(): whenever toggle_floating succeeds on a floating
\* window, the tile sequence is non-empty and has a master; and swap_windows
\* reaches its modulo only with a tile count that is not zero
C39_NoUnwrapOfNone ==
    /\ last.res # "Panic"
    /\ \A w \in 1..(MaxFloatWin + 1) :
           /\ MinimiseWM_swap_with_master(wm, w).res # "Panic"
           /\ w \in Floating =>
                  LET toggled == FloatOrTileManager_toggle_floating(
                                     minimise_manager.layout_manager, w, focus_manager)
                  IN  toggled.res = "Ok" =>
                          /\ toggled.st[1].tile_manager.tiles # << >>
                          /\ FloatOrTileManager_get_master_window(toggled.st[1]) # None
    /\ (/\ focus_manager.focused_window # None
        /\ position(tiles, focus_manager.focused_window) # 0) => Len(tiles) # 0

\* swap_with_master was called on the only window, a floating one, with no
\* tile on the screen, and returned Ok
C39_Witness ==
    /\ last.op = "swap_with_master"
    /\ last.res = "Ok"
    /\ last.was = "Float"
    /\ tiles = << >>
    /\ Managed = {last.window}

\* C40: in MultiWorkspaces the current workspace index is always smaller than
\* the number of workspaces; switch_workspace(i) succeeds iff i is at most the
\* number of workspaces, appending exactly one new empty workspace when i
\* equals it and none otherwise, and for larger i it returns
\* WorkspaceIndexOutOfBound and leaves the current index and all workspaces
\* unchanged; operations other than resize_screen and switch_workspace never
\* change a workspace that is not the current one
C40_Workspaces ==
    /\ [](multi_workspaces.current_workspace < Len(multi_workspaces.workspaces))
    /\ [][LET n == Len(multi_workspaces.workspaces)
              index == multi_last'.arg
          IN  /\ multi_last'.op = "switch_workspace" =>
                     /\ multi_last'.res = "Ok" <=> index <= n
                     /\ index < n =>
                            /\ multi_workspaces'.workspaces = multi_workspaces.workspaces
                            /\ multi_workspaces'.current_workspace = index
                     /\ index = n =>
                            /\ Len(multi_workspaces'.workspaces) = n + 1
                            /\ SubSeq(multi_workspaces'.workspaces, 1, n)
                                   = multi_workspaces.workspaces
                            /\ MinimiseWM_get_windows(multi_workspaces'.workspaces[n + 1]) = << >>
                            /\ multi_workspaces'.current_workspace = index
                     /\ index > n =>
                            /\ multi_last'.res = "WorkspaceIndexOutOfBound"
                            /\ multi_workspaces' = multi_workspaces
              /\ multi_last'.op \notin {"resize_screen", "switch_workspace"} =>
                     /\ Len(multi_workspaces'.workspaces) = n
                     /\ multi_workspaces'.current_workspace = multi_workspaces.current_workspace
                     /\ \A k \in 1..n :
                            k # multi_workspaces.current_workspace + 1 =>
                                multi_workspaces'.workspaces[k] = multi_workspaces.workspaces[k]
         ]_vars

\* with the second of two workspaces current and a window in the first,
\* switch_workspace was called with an index beyond the number of workspaces
C40_Witness ==
    /\ multi_last.op = "switch_workspace"
    /\ multi_last.res = "WorkspaceIndexOutOfBound"
    /\ Len(multi_workspaces.workspaces) = 2
    /\ multi_workspaces.current_workspace = 1
    /\ MinimiseWM_get_windows(multi_workspaces.workspaces[1]) # << >>
    /\ MinimiseWM_get_windows(multi_workspaces.workspaces[2]) # << >>

=============================================================================
